---- MODULE Spec2Model ----
(***************************************************************************)
(* Embedded browser automation core of packages/app/src-tauri/src/         *)
(* browser.rs: the session state (BROWSER_STATE), the hosted webview, the  *)
(* single pending-result slot (BROWSER_EXTRACT_RESULT), the URL gate, the  *)
(* content commands that arm the slot, build and evaluate a script and     *)
(* poll for its result, the result delivery entry point, the navigation    *)
(* history and the advisory agent lock.                                    *)
(*                                                                         *)
(* Strings are sequences of one-character strings; Option<T> is a sequence *)
(* of length at most one; Result<T, String> is a record [ok, val].         *)
(***************************************************************************)
EXTENDS Integers, Sequences, FiniteSets, TLC

\* ---------------------------------------------------------------- bounds

\* Number of content-command / wait invocations a behaviour may start
\* (at most Cardinality(Threads) of them run at the same time).
MaxCmds == 2
\* Navigations a session may record in its history within the main model.
MaxHistory == 1
\* epoch_ms() returns any value in 0..MaxEpochMs (the system clock is not monotonic).
MaxEpochMs == 0
\* Stand-ins for the budgets the commands pass to wait_for_extract_result
\* (10000 ms at browser.rs:440, 5000 ms at browser.rs:468/494/522): the model
\* has no wall clock, only the number of polls matters, and the poll count is
\* kept small.  The 2:1 ratio of the two budgets is kept.
ExtractBudgetMs == 100
InteractBudgetMs == 50
\* Longest run of whitespace put in front of a URL handed to is_url_safe.
MaxPad == 1
\* Navigations made after the history has reached HistoryCap entries.
MaxEvictions == 2
\* Longest selector / filter / value string handed to a content command.
MaxArgLen == 2
\* Characters of a long page text beyond the preview of browser_get_state.
MaxExtraChars == 1
\* Navigations of a session beyond the entries browser_get_state lists.
MaxExtraNavs == 1
\* Characters of the short page texts a text extraction is applied to.
MaxPageChars == 6

\* ------------------------------------------------------ program constants

PollIntervalMs == 50
HistoryCap == 50
PortModulus == 65536
SnapshotEntries == 10
PreviewChars == 500
\* max_chars.unwrap_or(8000), and `maxChars || 8000` in the bridge.
DefaultLimit == 8000

\* ---------------------------------------------------------------- options

None == <<>>
Some(x) == <<x>>
IsSome(o) == Len(o) = 1
IsNone(o) == Len(o) = 0
Unwrap(o) == o[1]

Ok(v) == [ok |-> TRUE, val |-> v]
Err(msg) == [ok |-> FALSE, val |-> msg]
Unit == <<>>

\* ---------------------------------------------------------------- strings

EmptyStr == <<>>
UpperChars == <<"A","B","C","D","E","F","G","H","I","J","K","L","M",
                "N","O","P","Q","R","S","T","U","V","W","X","Y","Z">>
LowerChars == <<"a","b","c","d","e","f","g","h","i","j","k","l","m",
                "n","o","p","q","r","s","t","u","v","w","x","y","z">>
Whitespace == {" ", "\t", "\n", "\r"}

LowerMap ==
    [c \in {UpperChars[i] : i \in 1..Len(UpperChars)} |->
        LowerChars[CHOOSE i \in 1..Len(UpperChars) : UpperChars[i] = c]]

LowerChar(c) == IF c \in DOMAIN LowerMap THEN LowerMap[c] ELSE c

to_lowercase(s) == [i \in 1..Len(s) |-> LowerChar(s[i])]

RECURSIVE trim_start(_)
trim_start(s) ==
    IF s # <<>> /\ Head(s) \in Whitespace THEN trim_start(Tail(s)) ELSE s

RECURSIVE trim_end(_)
trim_end(s) ==
    IF s # <<>> /\ s[Len(s)] \in Whitespace
    THEN trim_end(SubSeq(s, 1, Len(s) - 1))
    ELSE s

trim(s) == trim_end(trim_start(s))

starts_with(s, p) == Len(s) >= Len(p) /\ SubSeq(s, 1, Len(p)) = p

\* ----------------------------------------------------------- URL validation

SchemeJavascript == <<"j","a","v","a","s","c","r","i","p","t",":">>
SchemeData == <<"d","a","t","a",":">>
SchemeFile == <<"f","i","l","e",":">>
SchemeBlob == <<"b","l","o","b",":">>
SchemeVbscript == <<"v","b","s","c","r","i","p","t",":">>
PrefixHttp == <<"h","t","t","p",":","/","/">>
PrefixHttps == <<"h","t","t","p","s",":","/","/">>

\* Mutant: the input is lower-cased but not trimmed.
is_url_safe_untrimmed(url) ==
    LET lower == to_lowercase(url) IN
    IF \/ starts_with(lower, SchemeJavascript)
       \/ starts_with(lower, SchemeData)
       \/ starts_with(lower, SchemeFile)
       \/ starts_with(lower, SchemeBlob)
       \/ starts_with(lower, SchemeVbscript)
    THEN Err(<<"Blocked scheme: ", url>>)
    ELSE IF ~starts_with(lower, PrefixHttp) /\ ~starts_with(lower, PrefixHttps)
    THEN Err(<<"Only http/https allowed, got: ", url>>)
    ELSE Ok(Unit)

\* Mutant: the accepted prefix is checked without its "://".
is_url_safe_loose(url) ==
    LET lower == to_lowercase(trim(url)) IN
    IF \/ starts_with(lower, SchemeJavascript)
       \/ starts_with(lower, SchemeData)
       \/ starts_with(lower, SchemeFile)
       \/ starts_with(lower, SchemeBlob)
       \/ starts_with(lower, SchemeVbscript)
    THEN Err(<<"Blocked scheme: ", url>>)
    ELSE IF ~starts_with(lower, <<"h","t","t","p">>)
    THEN Err(<<"Only http/https allowed, got: ", url>>)
    ELSE Ok(Unit)

is_url_safe(url) ==
    LET lower == to_lowercase(trim(url)) IN
    IF \/ starts_with(lower, SchemeJavascript)
       \/ starts_with(lower, SchemeData)
       \/ starts_with(lower, SchemeFile)
       \/ starts_with(lower, SchemeBlob)
       \/ starts_with(lower, SchemeVbscript)
    THEN Err(<<"Blocked scheme: ", url>>)
    ELSE IF ~starts_with(lower, PrefixHttp) /\ ~starts_with(lower, PrefixHttps)
    THEN Err(<<"Only http/https allowed, got: ", url>>)
    ELSE Ok(Unit)

\* ------------------------------------------------------------------ inputs

UrlA == <<"h","t","t","p",":","/","/","a">>
UrlB == <<"H","T","T","P","S",":","/","/","b">>
UrlJs == <<" ","J","a","v","a","s","c","r","i","p","t",":","x">>
\* The address of a page with a long text.
UrlLong == <<"h","t","t","p",":","/","/","l">>
SafeUrls == {UrlA, UrlB}
Urls == SafeUrls \cup {UrlJs}

\* is_url_safe over the URLs the commands are called with, evaluated once.
UrlVerdicts == [u \in Urls \cup {UrlLong} |-> is_url_safe(u)]

Agents == {"A", "B"}

\* Contents of .hello-world/sync.json as read_sync_port sees them: the file
\* cannot be read, cannot be parsed, has no numeric port, or has one.
SyncJsons == {[kind |-> "unreadable", port |-> 0],
              [kind |-> "port", port |-> 4000]}


\* ------------------------------------------------------------------- state

VARIABLES
    browser_state,    \* BROWSER_STATE: Option<BrowserState>
    webview,          \* the "hw-browser" webview of the app: Option<[url]>
    extract_result,   \* BROWSER_EXTRACT_RESULT: Option<Value>
    posts,            \* envelopes posted by page scripts, not yet received
    cmds,             \* per worker thread: the content command it runs, its pc and result
    started,          \* number of content-command invocations started so far
    closing,          \* a browser_close is between closing the view and clearing the state
    ret               \* what the last synchronous command returned

vars == <<browser_state, webview, extract_result, posts, cmds, started, closing, ret>>

\* ------------------------------------------------------------ page contents

\* What the bridge's text() reports for the page at url u (title, href, text).
PageTitleOf(u) == <<"T">> \o u
TextChars == <<"a", "b", "c", "d", "e", "f", "g", "h", "i", "j">>
LongText == [i \in 1..(PreviewChars + MaxExtraChars) |-> TextChars[(i % 10) + 1]]
PageTextOf(u) == IF u = UrlLong THEN LongText ELSE <<"X">> \o u

\* The data member of an envelope, by what serde_json makes of it: it is
\* missing or no string ("missing"), the empty string ("empty"), a string
\* that is not JSON ("garbage"), or a string that decodes ("json") to a value
\* whose title / url / text members are strings or absent.
DataPage(u) == [kind |-> "json", title |-> Some(PageTitleOf(u)),
                url |-> Some(u), text |-> Some(PageTextOf(u))]
DataPlain == [kind |-> "json", title |-> None, url |-> None, text |-> None]

\* postResult(JSON.stringify({action, data})), posted by the script that
\* invocation `origin` evaluated (0: the init script's page-load auto-extract).
Envelope(action, data, origin) == [action |-> action, data |-> data, origin |-> origin]

AutoPost(u) == Envelope("auto", DataPage(u), 0)

\* -------------------------------------------------------------- HistoryEntry

HistoryEntry(url, title, visited_at) ==
    [url |-> url, title |-> title, visited_at |-> visited_at]

\* Mutant: the length check after the push is missing.
push_history_nocap(history, entry) == Append(history, entry)

\* history.push(entry); if history.len() > 50 { history.remove(0); }
push_history(history, entry) ==
    LET pushed == Append(history, entry) IN
    IF Len(pushed) > HistoryCap THEN Tail(pushed) ELSE pushed

\* Mutant: the entry records the URL navigated to, not the one being left.
record_navigation_target(state, url, now) ==
    [state EXCEPT
        !.history = IF state.current_url # EmptyStr
                    THEN push_history(state.history,
                             HistoryEntry(url, state.page_title, now))
                    ELSE state.history,
        !.status = "loading",
        !.current_url = url]

\* Mutant: the navigation is recorded and the status left as it is.
record_navigation_keep_status(state, url, now) ==
    [state EXCEPT
        !.history = IF state.current_url # EmptyStr
                    THEN push_history(state.history,
                             HistoryEntry(state.current_url, state.page_title, now))
                    ELSE state.history,
        !.current_url = url]

\* Mutant: a navigation starts the page without a lock holder.
record_navigation_unlock(state, url, now) ==
    [state EXCEPT
        !.history = IF state.current_url # EmptyStr
                    THEN push_history(state.history,
                             HistoryEntry(state.current_url, state.page_title, now))
                    ELSE state.history,
        !.status = "loading",
        !.current_url = url,
        !.lock_holder = None]

\* The block shared by browser_open (already open) and browser_navigate.
record_navigation(state, url, now) ==
    [state EXCEPT
        !.history = IF state.current_url # EmptyStr
                    THEN push_history(state.history,
                             HistoryEntry(state.current_url, state.page_title, now))
                    ELSE state.history,
        !.status = "loading",
        !.current_url = url]

NewBrowserState(url, port) ==
    [window_open |-> TRUE,
     lock_holder |-> None,
     current_url |-> url,
     status |-> "loading",
     page_title |-> EmptyStr,
     extracted_text |-> EmptyStr,
     history |-> <<>>,
     loopback_port |-> port]

\* Every kind of sync.json: unreadable (or absent), not JSON, without a
\* numeric port, and with one.
AllSyncJsons ==
    SyncJsons \cup {[kind |-> "unparsable", port |-> 0], [kind |-> "noport", port |-> 0]}

\* sync.json of three projects: two ports, and a number beyond 16 bits.
WidePort == PortModulus + 4464
PortSyncJsons == {[kind |-> "port", port |-> 4000], [kind |-> "port", port |-> 5000],
                  [kind |-> "port", port |-> WidePort]}

\* Mutant: a port that does not fit 16 bits is reported as missing.
read_sync_port_checked(sync) ==
    CASE sync.kind = "unreadable" -> Err(<<"Cannot read sync.json">>)
      [] sync.kind = "unparsable" -> Err(<<"Cannot parse sync.json">>)
      [] sync.kind = "noport" -> Err(<<"sync.json missing port">>)
      [] sync.port >= PortModulus -> Err(<<"sync.json missing port">>)
      [] OTHER -> Ok(sync.port)

\* Mutant: a port that cannot be read falls back to a default.
read_sync_port_default(sync) ==
    IF sync.kind = "port" THEN Ok(sync.port % PortModulus) ELSE Ok(3000)

\* read_sync_port: data["port"].as_u64().map(|p| p as u16)
read_sync_port(sync) ==
    CASE sync.kind = "unreadable" -> Err(<<"Cannot read sync.json">>)
      [] sync.kind = "unparsable" -> Err(<<"Cannot parse sync.json">>)
      [] sync.kind = "noport" -> Err(<<"sync.json missing port">>)
      [] OTHER -> Ok(sync.port % PortModulus)

\* Worker threads of the async runtime that run content commands.
Threads == {1, 2}

IdleCmd == [pc |-> "idle", id |-> 0, kind |-> "none", budget |-> 0, polls |-> 0,
            took |-> None, ret |-> Ok(Unit), sel |-> EmptyStr, val |-> EmptyStr,
            holds |-> {}]

\* The mutexes: "state" guards BROWSER_STATE, "slot" BROWSER_EXTRACT_RESULT.
\* A step that locks one waits until no worker holds it (cmds[c].holds is
\* what worker c holds while it rests between two of its steps).
GuardFree(g) == \A c \in Threads : g \notin cmds[c].holds

\* Mutant: the slot is locked once, before the loop, and kept while sleeping.
held_between_polls_slot == {"slot"}

\* What a worker holds while it sleeps in wait_for_extract_result: nothing,
\* the guard of an iteration is dropped where its if-let block ends.
held_between_polls == {}

Init ==
    /\ browser_state = None
    /\ webview = None
    /\ extract_result = None
    /\ posts = {}
    /\ cmds = [c \in Threads |-> IdleCmd]
    /\ started = 0
    /\ closing = FALSE
    /\ ret = [op |-> "none", res |-> Ok(Unit)]

\* Who holds the lock of the session, if there is one.
LockHolder == IF IsSome(browser_state) THEN Unwrap(browser_state).lock_holder ELSE None

\* History room left in the model (the code itself caps at HistoryCap).
NavAllowed ==
    IsSome(browser_state) => Len(Unwrap(browser_state).history) < MaxHistory


\* epoch_ms(): SystemTime::now() since UNIX_EPOCH, in ms (any clock reading).
EpochMs == 0..MaxEpochMs

\* What the webview layer does with a request: it succeeds, the main window
\* is missing, the URL does not parse, or the view operation fails.
Transports == {"ok", "window", "parse", "view"}

\* ------------------------------------------------------------- browser_open

\* Mutant: re-open replaces the BrowserState record instead of updating it.
OpenNavigate_recreate(url, now, transport) ==
    /\ browser_state' = Some(NewBrowserState(url, Unwrap(browser_state).loopback_port))
    /\ IF transport \in {"parse", "view"}
       THEN /\ ret' = [op |-> "open",
                       res |-> Err(IF transport = "parse"
                                   THEN <<"url parse error">> ELSE <<"Navigate: ">>)]
            /\ UNCHANGED <<webview, posts>>
       ELSE /\ webview' = Some([url |-> url])
            /\ posts' = posts \cup {AutoPost(url)}
            /\ ret' = [op |-> "open", res |-> Ok(<<"navigated", url>>)]

\* browser_open when the state and the webview both exist: navigate in place.
OpenNavigate(url, now, transport) ==
    /\ browser_state' = Some(record_navigation(Unwrap(browser_state), url, now))
    /\ IF transport \in {"parse", "view"}
       THEN /\ ret' = [op |-> "open",
                       res |-> Err(IF transport = "parse"
                                   THEN <<"url parse error">> ELSE <<"Navigate: ">>)]
            /\ UNCHANGED <<webview, posts>>
       ELSE /\ webview' = Some([url |-> url])
            /\ posts' = posts \cup {AutoPost(url)}
            /\ ret' = [op |-> "open", res |-> Ok(<<"navigated", url>>)]

\* Mutant: a BrowserState left behind (its view is gone) is updated, not replaced.
OpenCreate_keep(url, sync, transport) ==
    LET port == read_sync_port(sync) IN
    IF ~port.ok
    THEN ret' = [op |-> "open", res |-> port]
         /\ UNCHANGED <<browser_state, webview, posts>>
    ELSE IF transport = "window"
    THEN ret' = [op |-> "open", res |-> Err(<<"Main window not found">>)]
         /\ UNCHANGED <<browser_state, webview, posts>>
    ELSE IF transport = "parse"
    THEN ret' = [op |-> "open", res |-> Err(<<"url parse error">>)]
         /\ UNCHANGED <<browser_state, webview, posts>>
    ELSE IF transport = "view" \/ IsSome(webview)
    THEN ret' = [op |-> "open", res |-> Err(<<"Webview create failed: ">>)]
         /\ UNCHANGED <<browser_state, webview, posts>>
    ELSE /\ webview' = Some([url |-> url])
         /\ browser_state' =
               IF IsSome(browser_state)
               THEN Some([Unwrap(browser_state) EXCEPT
                             !.current_url = url, !.status = "loading",
                             !.loopback_port = port.val])
               ELSE Some(NewBrowserState(url, port.val))
         /\ posts' = posts \cup {AutoPost(url)}
         /\ ret' = [op |-> "open", res |-> Ok(<<"opened", url>>)]

\* browser_open creating the child webview and a fresh BrowserState.
OpenCreate(url, sync, transport) ==
    LET port == read_sync_port(sync) IN
    IF ~port.ok
    THEN ret' = [op |-> "open", res |-> port]
         /\ UNCHANGED <<browser_state, webview, posts>>
    ELSE IF transport = "window"
    THEN ret' = [op |-> "open", res |-> Err(<<"Main window not found">>)]
         /\ UNCHANGED <<browser_state, webview, posts>>
    ELSE IF transport = "parse"
    THEN ret' = [op |-> "open", res |-> Err(<<"url parse error">>)]
         /\ UNCHANGED <<browser_state, webview, posts>>
    ELSE IF transport = "view" \/ IsSome(webview)
    THEN \* add_child fails; a webview labelled "hw-browser" that still exists is one cause
         ret' = [op |-> "open", res |-> Err(<<"Webview create failed: ">>)]
         /\ UNCHANGED <<browser_state, webview, posts>>
    ELSE /\ webview' = Some([url |-> url])
         /\ browser_state' = Some(NewBrowserState(url, port.val))
         /\ posts' = posts \cup {AutoPost(url)}
         /\ ret' = [op |-> "open", res |-> Ok(<<"opened", url>>)]

\* Mutant: open on the open session takes the port of the given project.
browser_open_reread(url, sync, now, transport) ==
    LET safe == UrlVerdicts[url]
        port == read_sync_port(sync) IN
    /\ IF ~safe.ok
       THEN ret' = [op |-> "open", res |-> safe]
            /\ UNCHANGED <<browser_state, webview, posts>>
       ELSE /\ GuardFree("state")
            /\ IF /\ IsSome(browser_state)
                  /\ Unwrap(browser_state).window_open
                  /\ IsSome(webview)
               THEN /\ browser_state' =
                         Some([record_navigation(Unwrap(browser_state), url, now)
                                  EXCEPT !.loopback_port = IF port.ok THEN port.val ELSE @])
                    /\ webview' = Some([url |-> url])
                    /\ posts' = posts \cup {AutoPost(url)}
                    /\ ret' = [op |-> "open", res |-> Ok(<<"navigated", url>>)]
               ELSE OpenCreate(url, sync, transport)
    /\ UNCHANGED <<extract_result, cmds, started, closing>>

browser_open(url, sync, now, transport) ==
    LET safe == UrlVerdicts[url] IN
    /\ IF ~safe.ok
       THEN ret' = [op |-> "open", res |-> safe]
            /\ UNCHANGED <<browser_state, webview, posts>>
       ELSE /\ GuardFree("state")
            /\ IF /\ IsSome(browser_state)
                  /\ Unwrap(browser_state).window_open
                  /\ IsSome(webview)
               THEN OpenNavigate(url, now, transport)
               ELSE OpenCreate(url, sync, transport)
    /\ UNCHANGED <<extract_result, cmds, started, closing>>

\* --------------------------------------------------------- browser_navigate

\* Mutant: the URL is validated after the state has been updated.
browser_navigate_late_gate(url, now, transport) ==
    LET safe == UrlVerdicts[url] IN
    /\ IF IsNone(webview)
       THEN ret' = [op |-> "navigate", res |-> Err(<<"Browser not open">>)]
            /\ UNCHANGED <<browser_state, webview, posts>>
       ELSE /\ browser_state' =
                 IF IsSome(browser_state)
                 THEN Some(record_navigation(Unwrap(browser_state), url, now))
                 ELSE browser_state
            /\ IF ~safe.ok
               THEN /\ ret' = [op |-> "navigate", res |-> safe]
                    /\ UNCHANGED <<webview, posts>>
               ELSE /\ webview' = Some([url |-> url])
                    /\ posts' = posts \cup {AutoPost(url)}
                    /\ ret' = [op |-> "navigate", res |-> Ok(<<"navigated", url>>)]
    /\ UNCHANGED <<extract_result, cmds, started, closing>>

\* Mutant: a navigation that fails leaves the state as it was.
browser_navigate_rollback(url, now, transport) ==
    LET safe == UrlVerdicts[url] IN
    /\ IF ~safe.ok
       THEN ret' = [op |-> "navigate", res |-> safe]
            /\ UNCHANGED <<browser_state, webview, posts>>
       ELSE IF IsNone(webview)
       THEN ret' = [op |-> "navigate", res |-> Err(<<"Browser not open">>)]
            /\ UNCHANGED <<browser_state, webview, posts>>
       ELSE IF transport \in {"parse", "view"}
       THEN /\ ret' = [op |-> "navigate",
                       res |-> Err(IF transport = "parse"
                                   THEN <<"url parse error">> ELSE <<"Navigate: ">>)]
            /\ UNCHANGED <<browser_state, webview, posts>>
       ELSE /\ browser_state' =
                 IF IsSome(browser_state)
                 THEN Some(record_navigation(Unwrap(browser_state), url, now))
                 ELSE browser_state
            /\ webview' = Some([url |-> url])
            /\ posts' = posts \cup {AutoPost(url)}
            /\ ret' = [op |-> "navigate", res |-> Ok(<<"navigated", url>>)]
    /\ UNCHANGED <<extract_result, cmds, started, closing>>

browser_navigate(url, now, transport) ==
    LET safe == UrlVerdicts[url] IN
    /\ IF ~safe.ok
       THEN ret' = [op |-> "navigate", res |-> safe]
            /\ UNCHANGED <<browser_state, webview, posts>>
       ELSE IF IsNone(webview)
       THEN ret' = [op |-> "navigate", res |-> Err(<<"Browser not open">>)]
            /\ UNCHANGED <<browser_state, webview, posts>>
       ELSE /\ GuardFree("state")
            /\ browser_state' =
                 IF IsSome(browser_state)
                 THEN Some(record_navigation(Unwrap(browser_state), url, now))
                 ELSE browser_state
            /\ IF transport \in {"parse", "view"}
               THEN /\ ret' = [op |-> "navigate",
                               res |-> Err(IF transport = "parse"
                                           THEN <<"url parse error">> ELSE <<"Navigate: ">>)]
                    /\ UNCHANGED <<webview, posts>>
               ELSE /\ webview' = Some([url |-> url])
                    /\ posts' = posts \cup {AutoPost(url)}
                    /\ ret' = [op |-> "navigate", res |-> Ok(<<"navigated", url>>)]
    /\ UNCHANGED <<extract_result, cmds, started, closing>>

\* ------------------------------------------------------------ browser_close

\* Mutant: the view is looked up but not closed.
CloseView_keep ==
    /\ ~closing
    /\ closing' = TRUE
    /\ UNCHANGED <<browser_state, webview, extract_result, posts, cmds, started, ret>>

\* First half of browser_close: close the webview if there is one.
CloseView ==
    /\ ~closing
    /\ closing' = TRUE
    /\ webview' = None
    /\ UNCHANGED <<browser_state, extract_result, posts, cmds, started, ret>>

\* Second half: take the state lock, drop the state, emit the event, Ok(()).
CloseState ==
    /\ closing
    /\ GuardFree("state")
    /\ closing' = FALSE
    /\ browser_state' = None
    /\ ret' = [op |-> "close", res |-> Ok(Unit)]
    /\ UNCHANGED <<webview, extract_result, posts, cmds, started>>

\* ------------------------------------------------------------ Lock Arbiter

\* Mutant: the holder check is missing, any agent takes the lock over.
acquire_lock_steal(state, agent_id) ==
    IF IsSome(state)
    THEN [state |-> Some([Unwrap(state) EXCEPT !.lock_holder = Some(agent_id)]),
          res |-> Ok(Unit)]
    ELSE [state |-> state, res |-> Err(<<"Browser not open">>)]

\* Mutant: any held lock is a conflict, also for its own holder.
acquire_lock_strict(state, agent_id) ==
    IF IsSome(state)
    THEN IF IsSome(Unwrap(state).lock_holder)
         THEN [state |-> state,
               res |-> Err(<<"Browser locked by: ", Unwrap(Unwrap(state).lock_holder)>>)]
         ELSE [state |-> Some([Unwrap(state) EXCEPT !.lock_holder = Some(agent_id)]),
               res |-> Ok(Unit)]
    ELSE [state |-> state, res |-> Err(<<"Browser not open">>)]

\* Mutant: the holder is checked and written in two critical sections; the
\* call that lost reports the conflict, and its write lands all the same.
acquire_lock_late_write(state, agent_id) ==
    IF IsSome(state)
    THEN [state |-> Some([Unwrap(state) EXCEPT !.lock_holder = Some(agent_id)]),
          res |-> IF /\ IsSome(Unwrap(state).lock_holder)
                     /\ Unwrap(Unwrap(state).lock_holder) # agent_id
                  THEN Err(<<"Browser locked by: ", Unwrap(Unwrap(state).lock_holder)>>)
                  ELSE Ok(Unit)]
    ELSE [state |-> state, res |-> Err(<<"Browser not open">>)]

\* browser_acquire_lock on the guarded state: the new state and the result.
acquire_lock(state, agent_id) ==
    IF IsSome(state)
    THEN IF /\ IsSome(Unwrap(state).lock_holder)
            /\ Unwrap(Unwrap(state).lock_holder) # agent_id
         THEN [state |-> state,
               res |-> Err(<<"Browser locked by: ", Unwrap(Unwrap(state).lock_holder)>>)]
         ELSE [state |-> Some([Unwrap(state) EXCEPT !.lock_holder = Some(agent_id)]),
               res |-> Ok(Unit)]
    ELSE [state |-> state, res |-> Err(<<"Browser not open">>)]

browser_acquire_lock(agent_id) ==
    /\ GuardFree("state")
    /\ browser_state' = acquire_lock(browser_state, agent_id).state
    /\ ret' = [op |-> "acquire", agent |-> agent_id,
               res |-> acquire_lock(browser_state, agent_id).res]
    /\ UNCHANGED <<webview, extract_result, posts, cmds, started, closing>>

\* Mutant: the holder comparison is missing, release clears any lock.
release_lock_any(state, agent_id) ==
    IF IsSome(state)
    THEN [state |-> Some([Unwrap(state) EXCEPT !.lock_holder = None]), res |-> Ok(Unit)]
    ELSE [state |-> state, res |-> Ok(Unit)]

\* browser_release_lock on the guarded state.
release_lock(state, agent_id) ==
    IF IsSome(state) /\ Unwrap(state).lock_holder = Some(agent_id)
    THEN [state |-> Some([Unwrap(state) EXCEPT !.lock_holder = None]), res |-> Ok(Unit)]
    ELSE [state |-> state, res |-> Ok(Unit)]

browser_release_lock(agent_id) ==
    /\ GuardFree("state")
    /\ browser_state' = release_lock(browser_state, agent_id).state
    /\ ret' = [op |-> "release", agent |-> agent_id,
               res |-> release_lock(browser_state, agent_id).res]
    /\ UNCHANGED <<webview, extract_result, posts, cmds, started, closing>>


\* ------------------------------------------------- view geometry, snapshot

\* What set_position / set_size / show / hide of the view may do.
GeometryOutcomes == {"ok", "position", "size", "show", "hide"}

\* browser_set_bounds: the view is looked up, moved, resized and shown. The
\* geometry of the view is not part of the state kept here.
browser_set_bounds(outcome) ==
    /\ outcome \in {"ok", "position", "size"}
    /\ ret' = [op |-> "setBounds",
               res |-> IF IsNone(webview) THEN Err(<<"Browser not open">>)
                       ELSE IF outcome = "position" THEN Err(<<"SetPosition: ">>)
                       ELSE IF outcome = "size" THEN Err(<<"SetSize: ">>)
                       ELSE Ok(Unit)]
    /\ UNCHANGED <<browser_state, webview, extract_result, posts, cmds, started, closing>>

\* browser_set_visible: the view is looked up and shown or hidden.
browser_set_visible(visible, outcome) ==
    /\ visible \in BOOLEAN
    /\ outcome \in (IF visible THEN {"ok", "show"} ELSE {"ok", "hide"})
    /\ ret' = [op |-> "setVisible",
               res |-> IF IsNone(webview) THEN Err(<<"Browser not open">>)
                       ELSE IF outcome = "show" THEN Err(<<"Show: ">>)
                       ELSE IF outcome = "hide" THEN Err(<<"Hide: ">>)
                       ELSE Ok(Unit)]
    /\ UNCHANGED <<browser_state, webview, extract_result, posts, cmds, started, closing>>

\* iter().rev() and take(n) of a Vec or of the chars of a String.
rev(s) == [i \in 1..Len(s) |-> s[Len(s) + 1 - i]]
take(s, n) == SubSeq(s, 1, IF n < Len(s) THEN n ELSE Len(s))

\* Mutant: the entries are taken from the front of the history, oldest first.
recent_history_oldest(history) == take(history, SnapshotEntries)

\* state.history.iter().rev().take(10)
recent_history(history) == take(rev(history), SnapshotEntries)

\* state.extracted_text.chars().take(500)
extracted_preview(text) == take(text, PreviewChars)

\* The JSON value browser_get_state builds from BROWSER_STATE.
state_snapshot(state) ==
    IF IsSome(state)
    THEN LET st == Unwrap(state) IN
         [open |-> TRUE,
          url |-> st.current_url,
          title |-> st.page_title,
          status |-> st.status,
          lockHolder |-> st.lock_holder,
          historyLength |-> Len(st.history),
          history |-> recent_history(st.history),
          extractedPreview |-> extracted_preview(st.extracted_text)]
    ELSE [open |-> FALSE,
          url |-> EmptyStr,
          title |-> EmptyStr,
          status |-> "idle",
          lockHolder |-> None,
          historyLength |-> 0,
          history |-> <<>>,
          extractedPreview |-> EmptyStr]

\* Mutant: the snapshot also consumes the pending result.
browser_get_state_take ==
    /\ ret' = [op |-> "getState", res |-> Ok(state_snapshot(browser_state))]
    /\ extract_result' = None
    /\ UNCHANGED <<browser_state, webview, posts, cmds, started, closing>>

browser_get_state ==
    /\ GuardFree("state")
    /\ ret' = [op |-> "getState", res |-> Ok(state_snapshot(browser_state))]
    /\ UNCHANGED <<browser_state, webview, extract_result, posts, cmds, started, closing>>


\* -------------------------------------------------------- Result Correlator

\* Mutant: the loop runs one iteration short (1..iterations).
iterations_short(timeout_ms) == (timeout_ms \div PollIntervalMs) - 1

\* Mutant: the poll count is rounded up instead of down.
iterations_ceil(timeout_ms) == (timeout_ms + PollIntervalMs - 1) \div PollIntervalMs

\* let iterations = timeout_ms / 50;
iterations(timeout_ms) == timeout_ms \div PollIntervalMs

\* Mutant: an unread payload is kept, the new one dropped.
store_slot_keep(slot, payload) == IF IsSome(slot) THEN slot ELSE Some(payload)

\* store_browser_result, first block: *guard = Some(payload.clone()).
store_slot(slot, payload) == Some(payload)

\* Mutant: the fold takes title and text and leaves current_url alone.
fold_result_keep_url(state, payload) ==
    IF payload.data.kind = "json" /\ IsSome(state)
    THEN LET inner == payload.data
             st == Unwrap(state) IN
         Some([st EXCEPT
             !.page_title = IF IsSome(inner.title) THEN Unwrap(inner.title) ELSE EmptyStr,
             !.extracted_text = IF IsSome(inner.text) THEN Unwrap(inner.text) ELSE EmptyStr,
             !.status = "ready"])
    ELSE state

\* Mutant: a member that the decoded data lacks leaves its field as it was.
fold_result_keep_absent(state, payload) ==
    IF payload.data.kind = "json" /\ IsSome(state)
    THEN LET inner == payload.data
             st == Unwrap(state) IN
         Some([st EXCEPT
             !.page_title = IF IsSome(inner.title) THEN Unwrap(inner.title) ELSE st.page_title,
             !.current_url = IF IsSome(inner.url) THEN Unwrap(inner.url) ELSE st.current_url,
             !.extracted_text = IF IsSome(inner.text) THEN Unwrap(inner.text) ELSE st.extracted_text,
             !.status = "ready"])
    ELSE state

\* store_browser_result, second block: fold the decoded data into the state.
fold_result(state, payload) ==
    IF payload.data.kind = "json" /\ IsSome(state)
    THEN LET inner == payload.data
             st == Unwrap(state) IN
         Some([st EXCEPT
             !.page_title = IF IsSome(inner.title) THEN Unwrap(inner.title) ELSE EmptyStr,
             !.current_url = IF IsSome(inner.url) THEN Unwrap(inner.url) ELSE st.current_url,
             !.extracted_text = IF IsSome(inner.text) THEN Unwrap(inner.text) ELSE EmptyStr,
             !.status = "ready"])
    ELSE state

\* The loopback handler received envelope p and calls store_browser_result(p).
store_browser_result(p) ==
    /\ p \in posts
    /\ GuardFree("slot")
    /\ p.data.kind = "json" => GuardFree("state")
    /\ posts' = posts \ {p}
    /\ extract_result' = store_slot(extract_result, p)
    /\ browser_state' = fold_result(browser_state, p)
    /\ UNCHANGED <<webview, cmds, started, closing, ret>>

\* --------------------------------------------------------- content commands

CommandKinds == {"extract", "links", "click", "fill"}

\* The action tag each command passes to its AndPost primitive.
ActionOf(kind) == kind

\* The budget each command hands to wait_for_extract_result.
BudgetOf(kind) == IF kind = "extract" THEN ExtractBudgetMs ELSE InteractBudgetMs

\* Budgets a direct caller of wait_for_extract_result_pub may pass.
WaitBudgetsMs == {PollIntervalMs - 1, 2 * PollIntervalMs - 1, 2 * PollIntervalMs}

\* What the page script computes for the command: text() of the loaded page
\* for extract, a value without title / url / text for links, click and fill.
ScriptData(kind, view) ==
    IF kind = "extract" THEN DataPage(view.url) ELSE DataPlain

\* Mutant: the command returns what it took from the slot as it is.
unwrap_result_raw(kind, result) == result

\* Parse the nested result: data_str = result["data"].as_str().unwrap_or("{}")
\* ("[]" in links), then serde_json::from_str(data_str), falling back to the
\* raw envelope (extract, click, fill) or to [] (links).
unwrap_result(kind, result) ==
    IF result.data.kind = "json"
    THEN [title |-> result.data.title, url |-> result.data.url, text |-> result.data.text]
    ELSE IF kind = "links"
    THEN <<>>
    ELSE IF result.data.kind = "missing"
    THEN [title |-> None, url |-> None, text |-> None]
    ELSE [action |-> result.action, data |-> result.data]

\* ------------------------------------------------------ generated scripts

Quote == "'"
Backslash == "\\"

\* Characters a selector, filter or value is made of in the model.
ArgChars == {"a", Quote, Backslash}

\* All strings over ArgChars of length 0..n.
RECURSIVE StringsUpTo(_)
StringsUpTo(n) ==
    IF n = 0 THEN {<<>>}
    ELSE StringsUpTo(n - 1) \cup
         {<<ch>> \o t : ch \in ArgChars, t \in {u \in StringsUpTo(n - 1) : Len(u) = n - 1}}

ArgStrings == StringsUpTo(MaxArgLen)

\* str::replace('\'', "\\'"): every ' becomes \'.
RECURSIVE replace_quote(_)
replace_quote(s) ==
    IF s = <<>> THEN <<>>
    ELSE (IF Head(s) = Quote THEN <<Backslash, Quote>> ELSE <<Head(s)>>)
         \o replace_quote(Tail(s))

\* max_chars.unwrap_or(8000), as it is formatted into the script.
DefaultMaxChars == "8000"

\* The pieces of a generated script that are no argument text.
CallOf(kind) ==
    CASE kind = "extract" -> "window.__HW_EXTRACT__.extractAndPost("
      [] kind = "links" -> "window.__HW_EXTRACT__.linksAndPost("
      [] kind = "click" -> "window.__HW_EXTRACT__.clickAndPost("
      [] OTHER -> "window.__HW_EXTRACT__.fillAndPost("
Comma == ", "
CallEnd == ");"

\* A string literal of the script: the text between single quotes.
Quoted(text) == <<Quote>> \o text \o <<Quote>>

\* The character sequence of a command's action tag.
TagChars(kind) ==
    CASE kind = "extract" -> <<"e","x","t","r","a","c","t">>
      [] kind = "links" -> <<"l","i","n","k","s">>
      [] kind = "click" -> <<"c","l","i","c","k">>
      [] OTHER -> <<"f","i","l","l">>

\* format!("window.__HW_EXTRACT__.<fn>('{}', ..., '<tag>');", ...) with the
\* escaped arguments; the fixed pieces are single elements of the sequence.
script(kind, sel, val) ==
    <<CallOf(kind)>> \o Quoted(replace_quote(sel))
    \o (CASE kind = "extract" -> <<Comma, DefaultMaxChars>>
          [] kind = "fill" -> <<Comma>> \o Quoted(replace_quote(val))
          [] OTHER -> <<>>)
    \o <<Comma>> \o Quoted(TagChars(kind)) \o <<CallEnd>>

\* The arguments the call is meant to pass to the bridge function.
IntendedArgs(kind, sel, val) ==
    <<sel>> \o (CASE kind = "extract" -> <<DefaultMaxChars>>
                  [] kind = "fill" -> <<val>>
                  [] OTHER -> <<>>)
    \o <<TagChars(kind)>>

\* The page's script engine reads a single-quoted string literal whose
\* opening quote is at s[i - 1]: a backslash takes the next character as
\* is, an unescaped quote ends the literal.  Result: the literal's value and
\* the position after the closing quote; ok is FALSE if the script ends first.
RECURSIVE ReadLiteral(_, _, _)
ReadLiteral(s, i, acc) ==
    IF i > Len(s) THEN [ok |-> FALSE, value |-> acc, next |-> i]
    ELSE IF s[i] = Quote THEN [ok |-> TRUE, value |-> acc, next |-> i + 1]
    ELSE IF s[i] = Backslash
    THEN IF i + 1 > Len(s) THEN [ok |-> FALSE, value |-> acc, next |-> i]
         ELSE ReadLiteral(s, i + 2, Append(acc, s[i + 1]))
    ELSE ReadLiteral(s, i + 1, Append(acc, s[i]))

\* The engine reads the argument list from s[i] on: literals and numbers
\* separated by commas, closed by ");" at the end of the script.
RECURSIVE ReadArgs(_, _, _)
ReadArgs(s, i, acc) ==
    IF i > Len(s) THEN [ok |-> FALSE, args |-> acc]
    ELSE LET arg == IF s[i] = Quote THEN ReadLiteral(s, i + 1, <<>>)
                    ELSE [ok |-> s[i] = DefaultMaxChars, value |-> s[i], next |-> i + 1]
         IN IF ~arg.ok \/ arg.next > Len(s) THEN [ok |-> FALSE, args |-> acc]
            ELSE IF s[arg.next] = CallEnd
            THEN [ok |-> arg.next = Len(s), args |-> Append(acc, arg.value)]
            ELSE IF s[arg.next] = Comma
            THEN ReadArgs(s, arg.next + 1, Append(acc, arg.value))
            ELSE [ok |-> FALSE, args |-> acc]

\* What webview.eval(&script) makes of the script: a call of the bridge
\* function with the arguments read, or a script that is no such call.
ReadCall(s) == ReadArgs(s, 2, <<>>)

\* The script calls the bridge function with exactly the intended arguments.
CallsAsIntended(kind, sel, val) ==
    LET call == ReadCall(script(kind, sel, val)) IN
    call.ok /\ call.args = IntendedArgs(kind, sel, val)

\* The runtime hands a new invocation to the lowest idle worker.
CanStart(c) ==
    /\ cmds[c].pc = "idle"
    /\ \A d \in Threads : d < c => cmds[d].pc # "idle"
    /\ started < MaxCmds

\* Mutant: a command is refused while an agent holds the lock.
CmdStartWith_locked(c, kind, sel, val) ==
    /\ CanStart(c)
    /\ kind \in CommandKinds
    /\ started' = started + 1
    /\ cmds' = [cmds EXCEPT ![c] =
                  IF IsNone(webview)
                  THEN [IdleCmd EXCEPT !.pc = "done", !.id = started + 1, !.kind = kind,
                                       !.sel = sel, !.val = val,
                                       !.ret = Err(<<"Browser not open">>)]
                  ELSE IF IsSome(browser_state) /\ IsSome(Unwrap(browser_state).lock_holder)
                  THEN [IdleCmd EXCEPT !.pc = "done", !.id = started + 1, !.kind = kind,
                                       !.sel = sel, !.val = val,
                                       !.ret = Err(<<"Browser locked by: ",
                                                     Unwrap(Unwrap(browser_state).lock_holder)>>)]
                  ELSE [IdleCmd EXCEPT !.pc = "arm", !.id = started + 1, !.kind = kind,
                                       !.sel = sel, !.val = val,
                                       !.budget = BudgetOf(kind)]]
    /\ UNCHANGED <<browser_state, webview, extract_result, posts, closing, ret>>

\* A command starts with its selector (or filter) and value arguments:
\* app.get_webview("hw-browser").ok_or("Browser not open")?
CmdStartWith(c, kind, sel, val) ==
    /\ CanStart(c)
    /\ kind \in CommandKinds
    /\ started' = started + 1
    /\ cmds' = [cmds EXCEPT ![c] =
                  IF IsNone(webview)
                  THEN [IdleCmd EXCEPT !.pc = "done", !.id = started + 1, !.kind = kind,
                                       !.sel = sel, !.val = val,
                                       !.ret = Err(<<"Browser not open">>)]
                  ELSE [IdleCmd EXCEPT !.pc = "arm", !.id = started + 1, !.kind = kind,
                                       !.sel = sel, !.val = val,
                                       !.budget = BudgetOf(kind)]]
    /\ UNCHANGED <<browser_state, webview, extract_result, posts, closing, ret>>

\* A command called with empty (or absent) selector and value.
CmdStart(c, kind) == CmdStartWith(c, kind, EmptyStr, EmptyStr)

\* The slot after "Clear pending result": *guard = None.
clear_slot(slot) == None

CmdArm(c) ==
    /\ cmds[c].pc = "arm"
    /\ GuardFree("slot")
    /\ extract_result' = clear_slot(extract_result)
    /\ cmds' = [cmds EXCEPT ![c].pc = "eval"]
    /\ UNCHANGED <<browser_state, webview, posts, started, closing, ret>>

\* Mutant: a failed eval is ignored and the command goes on to wait.
CmdEval_ignore(c, transport) ==
    /\ cmds[c].pc = "eval"
    /\ transport \in {"ok", "view"}
    /\ cmds' = [cmds EXCEPT ![c].pc = "wait", ![c].holds = held_between_polls]
    /\ posts' = IF /\ transport = "ok"
                   /\ IsSome(webview)
                   /\ CallsAsIntended(cmds[c].kind, cmds[c].sel, cmds[c].val)
                THEN posts \cup {Envelope(ActionOf(cmds[c].kind),
                                    ScriptData(cmds[c].kind, Unwrap(webview)),
                                    cmds[c].id)}
                ELSE posts
    /\ UNCHANGED <<browser_state, webview, extract_result, started, closing, ret>>

\* webview.eval(&script): on success the script runs in the page, if the view
\* still exists, and, being the intended call, posts its envelope; on failure
\* the command returns.
CmdEval(c, transport) ==
    /\ cmds[c].pc = "eval"
    /\ transport \in {"ok", "view"}
    /\ IF transport = "view"
       THEN /\ cmds' = [cmds EXCEPT ![c].pc = "done", ![c].ret = Err(<<"Eval: ">>)]
            /\ UNCHANGED posts
       ELSE /\ cmds' = [cmds EXCEPT ![c].pc = "wait", ![c].holds = held_between_polls]
            /\ posts' = IF /\ IsSome(webview)
                           /\ CallsAsIntended(cmds[c].kind, cmds[c].sel, cmds[c].val)
                        THEN posts \cup {Envelope(ActionOf(cmds[c].kind),
                                            ScriptData(cmds[c].kind, Unwrap(webview)),
                                            cmds[c].id)}
                        ELSE posts
    /\ UNCHANGED <<browser_state, webview, extract_result, started, closing, ret>>

\* A direct call of wait_for_extract_result_pub(timeout_ms).
WaitStart(c, timeout_ms) ==
    /\ CanStart(c)
    /\ timeout_ms \in WaitBudgetsMs
    /\ started' = started + 1
    /\ cmds' = [cmds EXCEPT ![c] =
                  [IdleCmd EXCEPT !.pc = "wait", !.id = started + 1, !.kind = "wait",
                                  !.budget = timeout_ms, !.holds = held_between_polls]]
    /\ UNCHANGED <<browser_state, webview, extract_result, posts, closing, ret>>

\* Mutant: the slot is read (guard.clone()) and not emptied.
take_slot_peek(slot) == [taken |-> slot, slot |-> slot]

\* guard.take() on the slot: what is taken, and what the slot holds after.
take_slot(slot) == [taken |-> slot, slot |-> None]

\* One iteration of the loop of wait_for_extract_result: sleep 50 ms, lock
\* the slot, guard.take(); a value ends the wait (and, in a command, is
\* unwrapped and returned).
WaitPoll(c) ==
    LET t == take_slot(extract_result) IN
    /\ cmds[c].pc = "wait"
    /\ cmds[c].polls < iterations(cmds[c].budget)
    /\ \A d \in Threads \ {c} : "slot" \notin cmds[d].holds
    /\ extract_result' = t.slot
    /\ cmds' = [cmds EXCEPT ![c] =
                  IF IsSome(t.taken)
                  THEN [cmds[c] EXCEPT
                           !.pc = "done",
                           !.holds = {},
                           !.polls = @ + 1,
                           !.took = t.taken,
                           !.ret = Ok(IF cmds[c].kind = "wait"
                                      THEN Unwrap(t.taken)
                                      ELSE unwrap_result(cmds[c].kind, Unwrap(t.taken)))]
                  ELSE [cmds[c] EXCEPT !.polls = @ + 1]]
    /\ UNCHANGED <<browser_state, webview, posts, started, closing, ret>>

\* Mutant: a command that gives up marks the session ready.
WaitTimeout_ready(c) ==
    /\ cmds[c].pc = "wait"
    /\ cmds[c].polls >= iterations(cmds[c].budget)
    /\ cmds' = [cmds EXCEPT ![c].pc = "done", ![c].ret = Err(<<"Extraction timed out">>)]
    /\ browser_state' = IF IsSome(browser_state)
                        THEN Some([Unwrap(browser_state) EXCEPT !.status = "ready"])
                        ELSE browser_state
    /\ UNCHANGED <<webview, extract_result, posts, started, closing, ret>>

\* The loop ran out: Err("Extraction timed out").
WaitTimeout(c) ==
    /\ cmds[c].pc = "wait"
    /\ cmds[c].polls >= iterations(cmds[c].budget)
    /\ cmds' = [cmds EXCEPT ![c].pc = "done", ![c].holds = {},
                            ![c].ret = Err(<<"Extraction timed out">>)]
    /\ UNCHANGED <<browser_state, webview, extract_result, posts, started, closing, ret>>

\* The caller receives the command's result; the worker is free again.
CmdReturn(c) ==
    /\ cmds[c].pc = "done"
    /\ cmds' = [cmds EXCEPT ![c] = IdleCmd]
    /\ UNCHANGED <<browser_state, webview, extract_result, posts, started, closing, ret>>

\* ------------------------------------------------------------------- Next

\* open / navigate / close, with the URLs, sync.json contents and webview
\* outcomes drawn from the given sets.
NextSession(urls, syncs, transports) ==
    \/ \E url \in urls, sync \in syncs, now \in EpochMs, t \in transports :
          NavAllowed /\ browser_open(url, sync, now, t)
    \/ \E url \in urls, now \in EpochMs, t \in transports :
          NavAllowed /\ browser_navigate(url, now, t)
    \/ CloseView
    \/ CloseState

NextLock ==
    \/ \E a \in Agents : browser_acquire_lock(a)
    \/ \E a \in Agents : browser_release_lock(a)

NextDeliver == \E p \in posts : store_browser_result(p)

\* The steps of a started command or wait.
NextRun ==
    \/ \E c \in Threads : CmdArm(c)
    \/ \E c \in Threads, t \in {"ok", "view"} : CmdEval(c, t)
    \/ \E c \in Threads : WaitPoll(c)
    \/ \E c \in Threads : WaitTimeout(c)
    \/ \E c \in Threads : CmdReturn(c)

Next ==
    \/ NextSession(Urls, SyncJsons, Transports)
    \/ NextLock
    \/ NextDeliver
    \/ \E c \in Threads, k \in CommandKinds : CmdStart(c, k)
    \/ \E c \in Threads, ms \in WaitBudgetsMs : WaitStart(c, ms)
    \/ NextRun

\* Every behaviour of the program.
Spec == Init /\ [][Next]_vars

\* The session, its lock and result delivery: every action that reads or
\* writes BROWSER_STATE, with no content command running.
NextArbiter ==
    \/ NextSession(Urls, SyncJsons, Transports)
    \/ NextLock
    \/ NextDeliver

SpecArbiter == Init /\ [][NextArbiter]_vars

\* One session at UrlA, opened when none exists, and closed.
NextOneSession ==
    \/ /\ IsNone(browser_state)
       /\ \E now \in EpochMs :
             browser_open(UrlA, [kind |-> "port", port |-> 4000], now, "ok")
    \/ CloseView
    \/ CloseState

\* The pending-result slot under concurrent content commands: every action
\* that reads or writes BROWSER_EXTRACT_RESULT.
NextCorrelator ==
    \/ NextOneSession
    \/ NextDeliver
    \/ \E c \in Threads, k \in {"extract", "click"} : CmdStart(c, k)
    \/ NextRun

SpecCorrelator == Init /\ [][NextCorrelator]_vars

\* No content command is running or armed.
NoneInFlight == \A c \in Threads : cmds[c].pc \in {"idle", "done"}

\* As SpecCorrelator, with a caller that never overlaps two content
\* commands: a command is issued only after the previous one has returned.
NextSerial ==
    \/ NextOneSession
    \/ NextDeliver
    \/ \E c \in Threads, k \in {"extract", "click"} : NoneInFlight /\ CmdStart(c, k)
    \/ NextRun

SpecSerial == Init /\ [][NextSerial]_vars

\* The contract of the slot: direct waits with any of WaitBudgetsMs, result
\* delivery, and click commands that arm the slot and compete for it.
NextWaiter ==
    \/ NextOneSession
    \/ NextDeliver
    \/ \E c \in Threads : CmdStart(c, "click")
    \/ \E c \in Threads, ms \in WaitBudgetsMs : WaitStart(c, ms)
    \/ NextRun

SpecWaiter == Init /\ [][NextWaiter]_vars

\* Calls of wait_for_extract_result_pub with any of WaitBudgetsMs, competing
\* for the payloads that are delivered.
NextAwait ==
    \/ NextOneSession
    \/ NextDeliver
    \/ \E c \in Threads, ms \in WaitBudgetsMs : WaitStart(c, ms)
    \/ \E c \in Threads : WaitPoll(c)
    \/ \E c \in Threads : WaitTimeout(c)
    \/ \E c \in Threads : CmdReturn(c)

\* The blocking task that runs wait_for_extract_result keeps running: its
\* sleep ends after 50 ms and the slot's mutex is held only for single reads
\* and writes, so a waiting call always gets its next poll or its return.
SpecWaiterFair ==
    /\ Init /\ [][NextAwait]_vars
    /\ \A c \in Threads : WF_vars(WaitPoll(c) \/ WaitTimeout(c))

\* ------------------------------------------------- the URL gate on its own

UpperChar(c) ==
    IF \E i \in 1..Len(LowerChars) : LowerChars[i] = c
    THEN UpperChars[CHOOSE i \in 1..Len(LowerChars) : LowerChars[i] = c]
    ELSE c

\* A string in the letter cases a caller may write it: as is, upper case,
\* and alternating case.
Cased(s, mode) ==
    [i \in 1..Len(s) |->
        IF mode = "upper" \/ (mode = "mixed" /\ i % 2 = 1) THEN UpperChar(s[i]) ELSE s[i]]

CaseModes == {"lower", "upper", "mixed"}

\* What a URL handed to the gate may begin with: the five blocked schemes,
\* the two accepted prefixes, and near misses of both.
GateHeads ==
    {SchemeJavascript, SchemeData, SchemeFile, SchemeBlob, SchemeVbscript,
     PrefixHttp, PrefixHttps,
     <<"h","t","t","p",":">>, <<"h","t","t","p","s",":","/">>,
     <<"h","t","t","p">>, <<"f","t","p",":","/","/">>, <<"a","b","o","u","t",":">>,
     <<"j","a","v","a","s","c","r","i","p","t">>, <<"x","d","a","t","a",":">>,
     <<"/","p">>, <<>>}

\* What may follow: nothing, a path, trailing whitespace, a blocked scheme.
GateTails == {<<>>, <<"a","/","b","?","q">>, <<" ">>, SchemeJavascript}

\* Runs of whitespace of length 0..MaxPad.
RECURSIVE Pads(_)
Pads(n) ==
    IF n = 0 THEN {<<>>}
    ELSE Pads(n - 1) \cup {<<w>> \o p : w \in {" ", "\t"}, p \in {q \in Pads(n - 1) : Len(q) = n - 1}}

GateUrls ==
    {p \o Cased(h, m) \o t : p \in Pads(MaxPad), h \in GateHeads, m \in CaseModes, t \in GateTails}

\* is_url_safe(&url) applied to one input.
Validate(url) ==
    /\ ret' = [op |-> "validate", url |-> url, res |-> is_url_safe(url)]
    /\ UNCHANGED <<browser_state, webview, extract_result, posts, cmds, started, closing>>

NextGate == \E url \in GateUrls : Validate(url)

SpecGate == Init /\ [][NextGate]_vars

\* --------------------------------------------------- a long-lived session

\* The session, if any, of BROWSER_STATE.
History == IF IsSome(browser_state) THEN Unwrap(browser_state).history ELSE <<>>

\* A clock that ticks once per navigation: the reading epoch_ms() gives the
\* next navigation.
Tick == IF History = <<>> THEN 0 ELSE History[Len(History)].visited_at + 1

\* The navigations of a long session go back and forth between two pages.
OtherUrl == IF Unwrap(browser_state).current_url = UrlA THEN UrlB ELSE UrlA

\* One session that is opened once and then navigated, by navigate and by
\* open, until MaxEvictions entries have been pushed out of the full
\* history; page posts are received while the history is short.
NextHistory ==
    \/ /\ IsNone(browser_state)
       /\ browser_open(UrlA, [kind |-> "port", port |-> 4000], 0, "ok")
    \/ /\ IsSome(browser_state)
       /\ Tick < HistoryCap + MaxEvictions
       /\ browser_open(OtherUrl, [kind |-> "port", port |-> 4000], Tick, "ok")
    \/ /\ IsSome(browser_state)
       /\ Tick < HistoryCap + MaxEvictions
       /\ browser_navigate(OtherUrl, Tick, "ok")
    \/ /\ IsSome(browser_state)
       /\ Len(History) < MaxHistory
       /\ NextDeliver

SpecHistory == Init /\ [][NextHistory]_vars

\* ----------------------------------------------- commands with arguments

\* No content command or wait occupies a worker.
AllIdle == \A c \in Threads : cmds[c].pc = "idle"

\* The argument pairs the commands are called with: every selector (or
\* filter) with an empty value, and, for fill, every value with a plain selector.
ArgPairs(kind) ==
    {<<sel, EmptyStr>> : sel \in ArgStrings}
    \cup (IF kind = "fill" THEN {<<(<<"a">>), v>> : v \in ArgStrings} ELSE {})

\* One session, opened once, and one caller that issues content commands
\* one at a time, with the arguments of ArgPairs.
NextScript ==
    \/ /\ IsNone(browser_state)
       /\ browser_open(UrlA, [kind |-> "port", port |-> 4000], 0, "ok")
    \/ NextDeliver
    \/ \E c \in Threads, k \in CommandKinds :
          \E a \in ArgPairs(k) : AllIdle /\ CmdStartWith(c, k, a[1], a[2])
    \/ NextRun

SpecScript == Init /\ [][NextScript]_vars

\* ------------------------------------------------ the session on its own

\* open / navigate / close with every URL, sync.json and webview outcome,
\* result delivery, and one agent that takes the lock.
NextLifecycle ==
    \/ NextSession(Urls, SyncJsons, Transports)
    \/ NextDeliver
    \/ browser_acquire_lock("A")

SpecLifecycle == Init /\ [][NextLifecycle]_vars


\* --------------------------------------------- every operation of the view

\* One session at UrlA, opened and closed, with every operation that looks
\* the view or the session up: navigate, the content commands (one at a
\* time), set_bounds, set_visible and acquire. No page post is received.
NextOperations ==
    \/ NextOneSession
    \/ NavAllowed /\ browser_navigate(UrlB, 0, "ok")
    \/ browser_acquire_lock("A")
    \/ browser_set_bounds("ok")
    \/ \E visible \in BOOLEAN : browser_set_visible(visible, "ok")
    \/ \E c \in Threads, k \in CommandKinds : AllIdle /\ CmdStart(c, k)
    \/ NextRun

SpecOperations == Init /\ [][NextOperations]_vars


\* ------------------------------------------- content commands of one caller

\* One session, opened once and never closed, page posts received at any
\* time, and one caller that issues the four content commands one at a time.
NextCommands ==
    \/ /\ IsNone(browser_state)
       /\ browser_open(UrlA, [kind |-> "port", port |-> 4000], 0, "ok")
    \/ NextDeliver
    \/ \E c \in Threads, k \in CommandKinds : AllIdle /\ CmdStart(c, k)
    \/ NextRun

SpecCommands == Init /\ [][NextCommands]_vars


\* ------------------------------------------------ snapshots of a session

\* One session, opened at the page with the long text, locked by A at some
\* point, and navigated back and forth until its history is longer than the
\* list browser_get_state gives; page posts are received while the history
\* is short, and browser_get_state is called at any time.
NextSnapshot ==
    \/ /\ IsNone(browser_state)
       /\ browser_open(UrlLong, [kind |-> "port", port |-> 4000], 0, "ok")
    \/ /\ IsSome(browser_state)
       /\ Tick < SnapshotEntries + MaxExtraNavs
       /\ browser_navigate(OtherUrl, Tick, "ok")
    \/ /\ IsSome(browser_state)
       /\ Len(History) < MaxHistory
       /\ NextDeliver
    \/ browser_acquire_lock("A")
    \/ browser_get_state

SpecSnapshot == Init /\ [][NextSnapshot]_vars


\* ------------------------------------------- the session beside a waiter

\* A worker is blocked in wait_for_extract_result.
Waiting(c) == cmds[c].pc = "wait"

\* One session, opened once, and one caller that issues extract commands
\* one at a time; page posts are received at any time, and while a
\* command waits the session is navigated and read and agent A takes the
\* lock and gives it back.
NextBeside ==
    \/ /\ IsNone(browser_state)
       /\ browser_open(UrlA, [kind |-> "port", port |-> 4000], 0, "ok")
    \/ NextDeliver
    \/ /\ \E c \in Threads : Waiting(c)
       /\ \/ NavAllowed /\ browser_navigate(UrlB, 0, "ok")
          \/ browser_acquire_lock("A")
          \/ browser_release_lock("A")
          \/ browser_get_state
    \/ \E c \in Threads : AllIdle /\ CmdStart(c, "extract")
    \/ NextRun

SpecBeside == Init /\ [][NextBeside]_vars


\* -------------------------------------------- commands on a locked session

\* One session, opened once, whose lock agent B takes; another caller then
\* navigates it and issues the four content commands one at a time. Page
\* posts are received at any time.
NextAdvisory ==
    \/ /\ IsNone(browser_state)
       /\ browser_open(UrlA, [kind |-> "port", port |-> 4000], 0, "ok")
    \/ started = 0 /\ IsSome(browser_state) /\ browser_acquire_lock("B")
    \/ NextDeliver
    \/ started = 0 /\ IsSome(LockHolder) /\ NavAllowed /\ browser_navigate(UrlB, 0, "ok")
    \/ \E c \in Threads, k \in CommandKinds : AllIdle /\ CmdStart(c, k)
    \/ NextRun

SpecAdvisory == Init /\ [][NextAdvisory]_vars


\* ----------------------------------------------- failures of collaborators

\* open, while no view exists, with every kind of sync.json and every
\* outcome of the webview layer, close, and one caller that issues click commands one at a time, whose
\* script evaluation may fail; page posts are received at any time.
NextFailures ==
    \/ \E sync \in AllSyncJsons, t \in Transports :
          IsNone(webview) /\ browser_open(UrlA, sync, 0, t)
    \/ CloseView
    \/ CloseState
    \/ NextDeliver
    \/ \E c \in Threads : AllIdle /\ CmdStart(c, "click")
    \/ NextRun

SpecFailures == Init /\ [][NextFailures]_vars


\* ------------------------------------------------- sessions of projects

\* open from any of three projects, navigate, close, result delivery, agent
\* A taking the free lock, and click commands, issued one at a time while
\* no page post is outstanding.
NextPort ==
    \/ NextSession({UrlA}, PortSyncJsons, {"ok"})
    \/ NextDeliver
    \/ IsNone(LockHolder) /\ browser_acquire_lock("A")
    \/ \E c \in Threads : AllIdle /\ posts = {} /\ CmdStart(c, "click")
    \/ NextRun

SpecPort == Init /\ [][NextPort]_vars


\* ------------------------------------------------ the status of a session

\* open, navigate and close with the pages of one project, the navigation
\* succeeding, failing to parse the URL or failing in the view, result
\* delivery, and browser_get_state.
NextStatus ==
    \/ NextSession(SafeUrls, {[kind |-> "port", port |-> 4000]}, {"ok", "parse", "view"})
    \/ NextDeliver
    \/ browser_get_state

SpecStatus == Init /\ [][NextStatus]_vars


\* ---------------------------------------------------- agents and the lock

\* One session at UrlA, opened and closed, whose lock two agents take and
\* give back in any order, while page posts are received.
NextAgents ==
    \/ NextOneSession
    \/ NextLock
    \/ NextDeliver

SpecAgents == Init /\ [][NextAgents]_vars


\* ================================================================= claims


\* A content command (not a direct wait) that has returned the payload it took.
ReturnedPayload(c) ==
    /\ cmds[c].pc = "done"
    /\ cmds[c].kind \in CommandKinds
    /\ IsSome(cmds[c].took)

\* C1: a content command never returns a payload that the script of an
\* earlier command posted (the envelope's origin is an earlier invocation).
C1_NoEarlierPayload ==
    \A c \in Threads :
        ReturnedPayload(c) =>
            LET e == Unwrap(cmds[c].took) IN e.origin = 0 \/ e.origin >= cmds[c].id

\* C2: the payload a content command returns is the one its own script
\* posted, carrying the command's action tag; an envelope with another tag
\* (the page-load "auto" post) is never returned as its result.
C2_ReturnsOwnPost ==
    \A c \in Threads :
        ReturnedPayload(c) =>
            LET e == Unwrap(cmds[c].took) IN
            e.action = ActionOf(cmds[c].kind) /\ e.origin = cmds[c].id

\* Content commands that have armed the slot and not yet finished awaiting.
InCycle == {c \in Threads : cmds[c].kind \in CommandKinds
                            /\ cmds[c].pc \in {"eval", "wait"}}

\* C3: at most one content command is inside its arm -> eval -> await cycle
\* at any time.
C3_OneCommandInCycle == Cardinality(InCycle) <= 1

\* Thread c, waiting and not having polled yet, takes its next step.
FirstStep(c) ==
    /\ cmds[c].pc = "wait"
    /\ cmds[c].polls = 0
    /\ cmds'[c] # cmds[c]

\* That step ends the wait by returning exactly what the slot held.
ReturnsSlot(c) ==
    /\ cmds'[c].pc = "done"
    /\ cmds'[c].ret.ok
    /\ cmds'[c].took = extract_result

\* C4, as stated, for every budget: if the slot holds a delivered payload p
\* (nothing cleared or took it) when awaitResult makes its first move, it
\* returns exactly p.
C4_AnyBudgetReturnsDelivered ==
    [][\A c \in Threads :
          FirstStep(c) /\ IsSome(extract_result) => ReturnsSlot(c)]_vars

\* C4, amended: the same for every budget of at least one poll interval
\* (timeoutMs >= 50).
C4_BudgetedReturnsDelivered ==
    [][\A c \in Threads :
          /\ FirstStep(c)
          /\ IsSome(extract_result)
          /\ cmds[c].budget >= PollIntervalMs
          => ReturnsSlot(c)]_vars

C4_Witness ==
    \E c \in Threads :
        /\ cmds[c].pc = "done"
        /\ cmds[c].kind = "wait"
        /\ cmds[c].budget >= PollIntervalMs
        /\ cmds[c].polls = 1
        /\ IsSome(cmds[c].took)
        /\ cmds[c].ret = Ok(Unwrap(cmds[c].took))

\* C5: the slot is single-take.  The step in which a wait returns a payload
\* leaves the slot empty; the slot is filled only by a delivery, with the
\* envelope delivered, so a payload is returned at most once per delivery;
\* and a wait whose poll finds the slot empty does not return a payload.
C5_SingleTake ==
    [][/\ \A c \in Threads :
             cmds[c].pc = "wait" /\ cmds'[c].pc = "done" /\ cmds'[c].ret.ok
             => /\ IsSome(extract_result)
                /\ cmds'[c].took = extract_result
                /\ extract_result' = None
       /\ IsSome(extract_result') /\ extract_result' # extract_result
             => \E p \in posts : extract_result' = Some(p) /\ posts' = posts \ {p}
       /\ \A c \in Threads :
             cmds[c].pc = "wait" /\ cmds'[c].pc = "done" /\ IsNone(extract_result)
             => ~cmds'[c].ret.ok]_vars

\* One wait has returned a payload, the slot is empty, and a later wait,
\* having polled, has timed out.
C5_Witness ==
    /\ extract_result = None
    /\ \E c, d \in Threads :
          /\ cmds[c].pc = "done" /\ IsSome(cmds[c].took)
          /\ cmds[d].pc = "done" /\ cmds[d].id > cmds[c].id
          /\ ~cmds[d].ret.ok /\ cmds[d].polls >= 1

\* A wait never polls beyond its budget, always has a next step while it
\* waits, and returns Timeout after exactly floor(timeoutMs / 50) polls.
BoundedWait ==
    \A c \in Threads :
        /\ cmds[c].polls * PollIntervalMs <= cmds[c].budget
        /\ (cmds[c].pc = "wait" => ENABLED (WaitPoll(c) \/ WaitTimeout(c)))
        /\ (cmds[c].pc = "done" /\ ~cmds[c].ret.ok
               /\ cmds[c].ret.val = <<"Extraction timed out">>
            => cmds[c].budget < (cmds[c].polls + 1) * PollIntervalMs)

\* C6: awaitResult(timeoutMs) always terminates (every waiting call
\* eventually returns), never polls beyond its budget, and returns Timeout
\* after exactly floor(timeoutMs / 50) polls.
C6_Terminates ==
    /\ []BoundedWait
    /\ \A c \in Threads : (cmds[c].pc = "wait") ~> (cmds[c].pc = "done")

\* A wait with a budget that is no multiple of 50 has timed out after polling.
C6_Witness ==
    \E c \in Threads :
        /\ cmds[c].pc = "done"
        /\ cmds[c].budget = 2 * PollIntervalMs - 1
        /\ cmds[c].polls = 1
        /\ ~cmds[c].ret.ok

\* C7: deliver(p) leaves the slot holding exactly p, whatever it held; the
\* slot never holds more than one payload.
C7_DeliverOverwrites ==
    /\ [](Len(extract_result) <= 1)
    /\ [][\A p \in posts : posts' = posts \ {p} => extract_result' = Some(p)]_vars

\* Both page loads were posted and delivered, nothing took or cleared the
\* slot, and the slot holds the later delivery.
C7_Witness ==
    /\ started = 0
    /\ posts = {}
    /\ IsSome(browser_state)
    /\ Len(Unwrap(browser_state).history) = 1
    /\ Unwrap(browser_state).history[1].url = UrlA
    /\ extract_result = Some(AutoPost(UrlB))

\* C8: while agent A holds the lock, acquire(B) for B # A fails with an
\* error naming A, and the lock holder stays A.
C8_AcquireConflict ==
    [][\A a, b \in Agents :
          a # b /\ LockHolder = Some(a) /\ browser_acquire_lock(b)
          => /\ ret'.res = Err(<<"Browser locked by: ", a>>)
             /\ LockHolder' = Some(a)]_vars

C8_Witness ==
    /\ ret.op = "acquire"
    /\ ret.agent = "B"
    /\ ~ret.res.ok
    /\ ret.res.val = <<"Browser locked by: ", "A">>
    /\ LockHolder = Some("A")

\* C9: on an open session acquire(a) succeeds exactly when the lock holder
\* is none or a; after a success the holder is a and nothing else of the
\* session changed; re-acquisition by the holder leaves the state unchanged.
C9_AcquireGrant ==
    [][\A a \in Agents :
          IsSome(browser_state) /\ browser_acquire_lock(a)
          => /\ ret'.res.ok <=> LockHolder \in {None, Some(a)}
             /\ ret'.res.ok =>
                   browser_state' =
                      Some([Unwrap(browser_state) EXCEPT !.lock_holder = Some(a)])
             /\ LockHolder = Some(a) => browser_state' = browser_state]_vars

C9_Witness ==
    /\ ret.op = "acquire"
    /\ ret.res.ok
    /\ LockHolder = Some(ret.agent)

\* C10: release(a) returns success in every state; it clears the lock
\* holder exactly when the holder is a, and otherwise (another holder, no
\* holder, no session) changes nothing.
C10_ReleaseOwnOnly ==
    [][\A a \in Agents :
          browser_release_lock(a)
          => /\ ret'.res.ok
             /\ IF LockHolder = Some(a)
                THEN browser_state' =
                        Some([Unwrap(browser_state) EXCEPT !.lock_holder = None])
                ELSE browser_state' = browser_state]_vars

\* B released while A held the lock: A still holds it.
C10_Witness ==
    /\ ret.op = "release"
    /\ ret.agent = "B"
    /\ ret.res.ok
    /\ LockHolder = Some("A")

\* The input, after leading whitespace, begins with prefix p in some letter case.
BeginsWith(url, p) ==
    \E k \in 0..Len(url) :
        /\ \A i \in 1..k : url[i] \in Whitespace
        /\ Len(url) >= k + Len(p)
        /\ \A i \in 1..Len(p) : LowerChar(url[k + i]) = p[i]

BlockedSchemes == {SchemeJavascript, SchemeData, SchemeFile, SchemeBlob, SchemeVbscript}

BeginsBlocked(url) == \E p \in BlockedSchemes : BeginsWith(url, p)
BeginsHttp(url) == BeginsWith(url, PrefixHttp) \/ BeginsWith(url, PrefixHttps)

\* C11: every input whose trimmed form begins, in any letter case, with
\* javascript:, data:, file:, blob: or vbscript: is rejected with the
\* "Blocked scheme" error.
C11_BlockedSchemes ==
    ret.op = "validate" /\ BeginsBlocked(ret.url)
    => ret.res = Err(<<"Blocked scheme: ", ret.url>>)

\* An upper-case vbscript: behind whitespace was rejected as blocked.
C11_Witness ==
    /\ ret.op = "validate"
    /\ ret.url = <<"\t">> \o Cased(SchemeVbscript, "upper") \o <<"a","/","b","?","q">>
    /\ ret.res = Err(<<"Blocked scheme: ", ret.url>>)

\* C12, as stated: every input without the http:// or https:// prefix gets
\* the "Only http/https allowed" error, and every input with it validates.
C12_OnlyHttpUnsupported ==
    ret.op = "validate"
    => IF BeginsHttp(ret.url)
       THEN ret.res = Ok(Unit)
       ELSE ret.res = Err(<<"Only http/https allowed, got: ", ret.url>>)

\* C12, amended: validation succeeds exactly for the inputs that begin
\* (after trimming, in any letter case) with http:// or https://, whatever
\* follows; an input that begins with neither and with none of the five
\* blocked schemes gets the "Only http/https allowed" error.
C12_ExactlyHttp ==
    ret.op = "validate"
    => /\ ret.res.ok <=> BeginsHttp(ret.url)
       /\ ret.res.ok => ret.res = Ok(Unit)
       /\ ~BeginsHttp(ret.url) /\ ~BeginsBlocked(ret.url)
          => ret.res = Err(<<"Only http/https allowed, got: ", ret.url>>)

\* A mixed-case https:// followed by javascript: validated.
C12_Witness ==
    /\ ret.op = "validate"
    /\ ret.url = <<" ">> \o Cased(PrefixHttps, "mixed") \o SchemeJavascript
    /\ ret.res = Ok(Unit)

\* C13: open or navigate with a URL the gate rejects returns the gate's
\* error and changes nothing: session state, hosted view, pending slot and
\* the page posts in flight are as before the call.
C13_RejectedChangesNothing ==
    [][\A url \in Urls \ SafeUrls, sync \in SyncJsons, now \in EpochMs, t \in Transports :
          /\ ret'.op \in {"open", "navigate"}
          /\ browser_open(url, sync, now, t) \/ browser_navigate(url, now, t)
          => /\ ~ret'.res.ok
             /\ ret'.res.val \in {<<"Blocked scheme: ", url>>,
                                  <<"Only http/https allowed, got: ", url>>}
             /\ UNCHANGED <<browser_state, webview, extract_result, posts>>]_vars

\* A javascript: URL was rejected on an open, locked session with a
\* delivered payload in the slot.
C13_Witness ==
    /\ ret.op \in {"open", "navigate"}
    /\ ret.res = Err(<<"Blocked scheme: ", UrlJs>>)
    /\ IsSome(webview)
    /\ LockHolder = Some("A")
    /\ IsSome(extract_result)

\* The session exists and its view is hosted.
SessionOpen ==
    /\ IsSome(browser_state)
    /\ Unwrap(browser_state).window_open
    /\ IsSome(webview)

\* C17: a successful open on a closed session (no state, or no view) leaves
\* a session with status loading, currentUrl = url, empty history, no lock
\* holder, empty title and extracted text, and the port read from sync.json.
C17_OpenIsFresh ==
    [][\A url \in SafeUrls, sync \in SyncJsons, now \in EpochMs, t \in Transports :
          /\ ~SessionOpen
          /\ ret'.op = "open"
          /\ ret'.res.ok
          /\ browser_open(url, sync, now, t)
          => /\ IsSome(browser_state')
             /\ LET st == Unwrap(browser_state') IN
                /\ st.status = "loading"
                /\ st.current_url = url
                /\ st.history = <<>>
                /\ st.lock_holder = None
                /\ st.page_title = EmptyStr
                /\ st.extracted_text = EmptyStr
                /\ st.window_open
                /\ st.loopback_port = sync.port % PortModulus
             /\ webview' = Some([url |-> url])
             /\ ret'.res = Ok(<<"opened", url>>)]_vars

\* UrlA was opened after a session at UrlB, whose delivered page is still in
\* the slot, had been closed.
C17_Witness ==
    /\ ret.op = "open"
    /\ ret.res = Ok(<<"opened", UrlA>>)
    /\ browser_state = Some([window_open |-> TRUE, lock_holder |-> None,
                             current_url |-> UrlA, status |-> "loading",
                             page_title |-> EmptyStr, extracted_text |-> EmptyStr,
                             history |-> <<>>, loopback_port |-> 4000])
    /\ extract_result = Some(AutoPost(UrlB))

\* C18: open on a session that is already open navigates in place: the
\* record is kept (lock holder, port, title, extracted text), the location
\* being left is appended to the history, status becomes loading, the view
\* is the same single view, now sent to url, and the result is "navigated".
C18_ReopenNavigates ==
    [][\A url \in SafeUrls, sync \in SyncJsons, now \in EpochMs, t \in Transports :
          SessionOpen /\ ret'.op = "open" /\ browser_open(url, sync, now, t)
          => /\ IsSome(browser_state')
             /\ LET st == Unwrap(browser_state)
                    st2 == Unwrap(browser_state')
                    left == [url |-> st.current_url, title |-> st.page_title,
                             visited_at |-> now]
                IN /\ st2.lock_holder = st.lock_holder
                   /\ st2.loopback_port = st.loopback_port
                   /\ st2.page_title = st.page_title
                   /\ st2.extracted_text = st.extracted_text
                   /\ st2.window_open
                   /\ st2.status = "loading"
                   /\ st2.current_url = url
                   /\ st.current_url # EmptyStr /\ Len(st.history) < HistoryCap
                      => st2.history = Append(st.history, left)
             /\ IsSome(webview')
             /\ t \in {"ok", "window"}
                => /\ webview' = Some([url |-> url])
                   /\ ret'.res = Ok(<<"navigated", url>>)
             /\ t \in {"parse", "view"}
                => webview' = webview /\ ~ret'.res.ok]_vars

\* A locked session with a delivered page was re-opened at another URL.
C18_Witness ==
    /\ ret.op = "open"
    /\ ret.res = Ok(<<"navigated", UrlB>>)
    /\ SessionOpen
    /\ LockHolder = Some("A")
    /\ Unwrap(browser_state).page_title = PageTitleOf(UrlA)
    /\ Unwrap(browser_state).history = <<[url |-> UrlA, title |-> PageTitleOf(UrlA),
                                          visited_at |-> 0]>>

\* C19: when close returns, the session state and the pending-result slot
\* are both empty.
C19_CloseEmptiesSlot ==
    [][CloseState => browser_state' = None /\ extract_result' = None]_vars

\* The step is a navigation of the open session to url at clock reading now.
Navigates(url, now) ==
    /\ SessionOpen
    /\ ret'.op \in {"open", "navigate"}
    /\ \/ browser_navigate(url, now, "ok")
       \/ browser_open(url, [kind |-> "port", port |-> 4000], now, "ok")

Stamps == 0..(HistoryCap + MaxEvictions)

\* C15: the history never holds more than 50 entries; a navigation below the
\* cap keeps all entries and adds one, a navigation at the cap removes the
\* oldest entry and keeps the other 49, in order, before the new one.
C15_HistoryCapped ==
    /\ [](Len(History) <= HistoryCap)
    /\ [][\A url \in SafeUrls, now \in Stamps :
             Navigates(url, now)
             => IF Len(History) < HistoryCap
                THEN /\ Len(History') = Len(History) + 1
                     /\ SubSeq(History', 1, Len(History)) = History
                ELSE /\ Len(History') = HistoryCap
                     /\ SubSeq(History', 1, HistoryCap - 1) = Tail(History)
                     /\ History'[HistoryCap].visited_at = now]_vars

\* The history is full and its two oldest entries have been evicted.
C15_Witness ==
    /\ Len(History) = HistoryCap
    /\ History[1].visited_at = 2
    /\ History[HistoryCap].visited_at = HistoryCap + 1

\* The entry for the location the session is leaving at clock reading now.
LeftEntry(now) ==
    [url |-> Unwrap(browser_state).current_url,
     title |-> Unwrap(browser_state).page_title,
     visited_at |-> now]

\* C16, as stated: the first navigation after open (the history is still
\* empty) produces no history entry; each later navigation appends exactly
\* one entry, for the location being left.
C16_FirstNavigationNoEntry ==
    [][\A url \in SafeUrls, now \in Stamps :
          Navigates(url, now)
          => IF History = <<>>
             THEN History' = <<>>
             ELSE History'[Len(History')] = LeftEntry(now)]_vars

\* C16, amended: the open that creates the session produces no history
\* entry; the first and each later navigation of the open session appends
\* exactly one entry whose url and title are those of the location being left.
C16_EveryNavigationRecords ==
    /\ [][ret'.op = "open" /\ ret'.res.ok /\ ~SessionOpen => History' = <<>>]_vars
    /\ [][\A url \in SafeUrls, now \in Stamps :
             Navigates(url, now)
             => /\ History' # <<>>
                /\ History'[Len(History')] = LeftEntry(now)
                /\ Len(History) < HistoryCap => Len(History') = Len(History) + 1
                /\ \A i \in 1..(Len(History') - 1) : History'[i] \in
                      {History[j] : j \in 1..Len(History)}]_vars

\* After open(UrlA) and its page post, the first navigation recorded UrlA
\* with its title and the second recorded UrlB.
C16_Witness ==
    /\ Len(History) = 2
    /\ History[1] = [url |-> UrlA, title |-> PageTitleOf(UrlA), visited_at |-> 0]
    /\ History[2].url = UrlB
    /\ History[2].visited_at = 1

\* C14: for every selector, filter and value, the text put between the
\* single quotes of the generated call cannot end the literal early: the
\* script a command is about to evaluate reads as the bridge function
\* applied to exactly the intended string arguments.
C14_ArgumentsStayQuoted ==
    \A c \in Threads :
        cmds[c].pc = "eval"
        => CallsAsIntended(cmds[c].kind, cmds[c].sel, cmds[c].val)

\* Nothing but the record of the last result and the position inside
\* browser_close changes.
NoStateChange == UNCHANGED <<browser_state, webview, extract_result, posts, cmds, started>>

\* C20: close can be called and returns success in every state, leaving no
\* session and, when its view-closing step is done, no view; on a closed
\* session it changes no state; and while no view exists (from close until
\* an open succeeds) every content command fails with "Browser not open",
\* touching nothing.
C20_CloseIdempotent ==
    /\ [](ENABLED (CloseView \/ CloseState))
    /\ [][CloseView => webview' = None /\ browser_state' = browser_state]_vars
    /\ [][CloseState
            => ret' = [op |-> "close", res |-> Ok(Unit)] /\ browser_state' = None]_vars
    /\ [][(CloseView \/ CloseState) /\ IsNone(browser_state) /\ IsNone(webview)
            => NoStateChange]_vars
    /\ [][\A c \in Threads, k \in CommandKinds :
             IsNone(webview) /\ CmdStart(c, k)
             => /\ cmds'[c].pc = "done"
                /\ cmds'[c].ret = Err(<<"Browser not open">>)
                /\ UNCHANGED <<browser_state, webview, extract_result, posts>>]_vars
    /\ [][IsNone(webview) /\ IsSome(webview') => ret'.op = "open" /\ ret'.res.ok]_vars

\* A command had returned a payload, the session was closed, and the
\* command issued after that failed with "Browser not open".
C20_Witness ==
    /\ ret = [op |-> "close", res |-> Ok(Unit)]
    /\ browser_state = None
    /\ webview = None
    /\ \E c, d \in Threads :
          /\ cmds[d].pc = "done" /\ cmds[d].ret.ok /\ IsSome(cmds[d].took)
          /\ cmds[c].pc = "done" /\ cmds[c].id > cmds[d].id
          /\ cmds[c].ret = Err(<<"Browser not open">>)

\* ---- C21: with no session (browser_state is None, get_state reports
\* open = false) navigate, the four content commands, set_bounds, set_visible
\* and acquire each return "Browser not open" and leave the session state and
\* the pending slot as they were; none of them is accepted.
C21_NoSessionRejects ==
    [][IsNone(browser_state)
       => /\ \A c \in Threads :
                cmds[c].pc = "idle" /\ cmds'[c].pc # "idle"
                => /\ cmds'[c].pc = "done"
                   /\ cmds'[c].ret = Err(<<"Browser not open">>)
                   /\ UNCHANGED <<browser_state, extract_result>>
          /\ /\ ret'.op \in {"navigate", "setBounds", "setVisible", "acquire"}
             /\ \/ browser_navigate(UrlB, 0, "ok")
                \/ browser_acquire_lock("A")
                \/ browser_set_bounds("ok")
                \/ \E visible \in BOOLEAN : browser_set_visible(visible, "ok")
             => /\ ret'.res = Err(<<"Browser not open">>)
                /\ UNCHANGED <<browser_state, webview, extract_result>>]_vars

\* A content command that has given up waiting.
TimedOut(c) ==
    /\ cmds[c].pc = "done"
    /\ cmds[c].kind \in CommandKinds
    /\ cmds[c].ret = Err(<<"Extraction timed out">>)

\* ---- C22: a content command that times out returns "Extraction timed out"
\* having taken nothing, and no step of a content command, the timeout
\* included, writes the session state: status, title, url, text, history and
\* lock holder are as the step found them.
C22_TimeoutWritesNothing ==
    /\ [][\A c \in Threads :
             cmds[c].kind \in CommandKinds /\ WaitTimeout(c)
             => TimedOut(c)' /\ browser_state' = browser_state]_vars
    /\ [][\A c \in Threads :
             /\ cmds'[c] # cmds[c]
             /\ cmds[c].kind \in CommandKinds \/ cmds'[c].kind \in CommandKinds
             => browser_state' = browser_state]_vars
    /\ [](\A c \in Threads :
             TimedOut(c) => IsNone(cmds[c].took) /\ cmds[c].polls = iterations(cmds[c].budget))

\* An extract has timed out on a session that is still loading.
C22_Witness ==
    \E c \in Threads :
        /\ TimedOut(c)
        /\ cmds[c].kind = "extract"
        /\ cmds[c].polls >= 1
        /\ IsSome(browser_state)
        /\ Unwrap(browser_state).status = "loading"

\* An envelope whose data string decodes to an object with string members
\* title, url and text.
DecodesToPage(p) ==
    /\ p.data.kind = "json"
    /\ IsSome(p.data.title) /\ IsSome(p.data.url) /\ IsSome(p.data.text)

\* ---- C23: on an open session, receiving an envelope whose data decodes to
\* {title, url, text} sets status to "ready", page_title, current_url and
\* extracted_text to the three members, and leaves the history, the lock
\* holder and the rest of the session as they were.
C23_DeliverFolds ==
    [][\A p \in posts :
          /\ store_browser_result(p)
          /\ IsSome(browser_state)
          /\ DecodesToPage(p)
          => /\ IsSome(browser_state')
             /\ Unwrap(browser_state') =
                   [Unwrap(browser_state) EXCEPT
                       !.status = "ready",
                       !.page_title = Unwrap(p.data.title),
                       !.current_url = Unwrap(p.data.url),
                       !.extracted_text = Unwrap(p.data.text)]
             /\ Unwrap(browser_state').history = Unwrap(browser_state).history
             /\ Unwrap(browser_state').lock_holder = Unwrap(browser_state).lock_holder]_vars

\* The post of the page at UrlA was received after the locked session had
\* navigated on to UrlB: the session is ready at UrlA, with A's title and
\* text, the entry of the navigation and the lock still in place.
C23_Witness ==
    /\ IsSome(browser_state) /\ IsSome(webview)
    /\ Unwrap(webview).url = UrlB
    /\ Unwrap(browser_state).status = "ready"
    /\ Unwrap(browser_state).current_url = UrlA
    /\ Unwrap(browser_state).page_title = PageTitleOf(UrlA)
    /\ Unwrap(browser_state).extracted_text = PageTextOf(UrlA)
    /\ Len(Unwrap(browser_state).history) = 1
    /\ Unwrap(browser_state).lock_holder = Some("A")
    /\ IsSome(extract_result)

\* The object that the data string of envelope e decodes to.
DecodedData(e) == [title |-> e.data.title, url |-> e.data.url, text |-> e.data.text]

C25_GetStateReadOnly ==
    [][ret'.op = "getState" /\ browser_get_state
       => UNCHANGED <<browser_state, extract_result, webview, posts, cmds, started, closing>>]_vars

\* browser_get_state has reported the ready session while the payload that
\* made it ready is still in the slot.
C25_Witness ==
    /\ ret.op = "getState"
    /\ ret.res.val.open
    /\ ret.res.val.status = "ready"
    /\ IsSome(extract_result)
    /\ IsSome(browser_state)
    /\ ret.res.val.historyLength = Len(History)

\* The smaller of two numbers.
Least(a, b) == IF a < b THEN a ELSE b

\* ---- C26: on a session browser_get_state reports historyLength as the
\* full length of the history, history as its min(10, length) last entries,
\* the last one first, extractedPreview as the first 500 characters of
\* extracted_text, and the current url, title, status and lock holder; with
\* no session it reports open = false, status "idle", no lock holder and an
\* empty history.
C26_SnapshotContents ==
    [][ret'.op = "getState" /\ browser_get_state
       => /\ ret'.res.ok
          /\ LET snap == ret'.res.val IN
             IF IsSome(browser_state)
             THEN LET st == Unwrap(browser_state)
                      n == Len(st.history) IN
                  /\ snap.open
                  /\ snap.historyLength = n
                  /\ Len(snap.history) = Least(SnapshotEntries, n)
                  /\ \A i \in 1..Len(snap.history) : snap.history[i] = st.history[n + 1 - i]
                  /\ Len(snap.extractedPreview) = Least(PreviewChars, Len(st.extracted_text))
                  /\ \A i \in 1..Len(snap.extractedPreview) :
                        snap.extractedPreview[i] = st.extracted_text[i]
                  /\ snap.url = st.current_url
                  /\ snap.title = st.page_title
                  /\ snap.status = st.status
                  /\ snap.lockHolder = st.lock_holder
             ELSE /\ ~snap.open
                  /\ snap.status = "idle"
                  /\ snap.lockHolder = None
                  /\ snap.historyLength = 0
                  /\ snap.history = <<>>
                  /\ snap.url = EmptyStr /\ snap.title = EmptyStr
                  /\ snap.extractedPreview = EmptyStr]_vars

\* browser_get_state has reported a locked session whose history is longer
\* than the ten entries listed and whose text is longer than the preview.
C26_Witness ==
    /\ ret.op = "getState"
    /\ ret.res.val.open
    /\ ret.res.val.historyLength > SnapshotEntries
    /\ Len(ret.res.val.history) = SnapshotEntries
    /\ ret.res.val.history[1].visited_at > ret.res.val.history[2].visited_at
    /\ Len(ret.res.val.extractedPreview) = PreviewChars
    /\ IsSome(browser_state)
    /\ Len(Unwrap(browser_state).extracted_text) > PreviewChars
    /\ ret.res.val.lockHolder = Some("A")

\* ---- C27: while a content command is blocked in wait_for_extract_result
\* it holds neither the state guard nor the slot guard between its polls:
\* browser_get_state, acquire, release, navigate and the receipt of a post
\* can each be taken, and each leaves the command waiting.
C27_WaiterBlocksNobody ==
    /\ [](\A c \in Threads :
             Waiting(c)
             => /\ cmds[c].holds = {}
                /\ ENABLED browser_get_state
                /\ \A a \in Agents : ENABLED browser_acquire_lock(a)
                /\ \A a \in Agents : ENABLED browser_release_lock(a)
                /\ \A url \in SafeUrls : ENABLED browser_navigate(url, 0, "ok")
                /\ \A p \in posts : ENABLED store_browser_result(p))
    /\ [][\A c \in Threads :
             /\ Waiting(c)
             /\ \/ ret' # ret
                \/ \E p \in posts : store_browser_result(p)
             => Waiting(c)' /\ cmds'[c] = cmds[c]]_vars

\* An extract is between its polls while, since it was armed, a post has
\* been received, A has taken the lock and the session has been read.
C27_Witness ==
    \E c \in Threads :
        /\ Waiting(c)
        /\ cmds[c].kind = "extract"
        /\ cmds[c].polls = 1
        /\ IsSome(extract_result)
        /\ ret.op = "getState"
        /\ ret.res.val.lockHolder = Some("A")
        /\ ret.res.val.status = "ready"

\* The session with its lock holder replaced by h.
WithHolder(state, h) == [state EXCEPT !.lock_holder = h]

\* Who may hold the lock: nobody, or one of the agents.
Holders == {None} \cup {Some(a) : a \in Agents}

\* ---- C28: the lock is advisory. A content command is accepted exactly
\* when the view exists, whoever holds the lock; navigate succeeds and
\* records the navigation as it would under any other holder; and no step
\* of a command or of navigate changes the holder.
C28_LockIsAdvisory ==
    /\ [][\A c \in Threads :
             cmds[c].pc = "idle" /\ cmds'[c].pc # "idle"
             => /\ cmds'[c].pc = "arm" <=> IsSome(webview)
                /\ cmds'[c].pc = "done" <=> IsNone(webview)
                /\ LockHolder' = LockHolder]_vars
    /\ [][\A c \in Threads : cmds'[c] # cmds[c] => LockHolder' = LockHolder]_vars
    /\ [][ret'.op = "navigate" /\ browser_navigate(UrlB, 0, "ok") /\ IsSome(browser_state)
          => /\ ret'.res = Ok(<<"navigated", UrlB>>)
             /\ LockHolder' = LockHolder
             /\ \A h \in Holders :
                   record_navigation(WithHolder(Unwrap(browser_state), h), UrlB, 0)
                      = WithHolder(Unwrap(browser_state'), h)]_vars

\* While B holds the lock, the session was navigated to UrlB and a fill has
\* returned the object its own script posted.
C28_Witness ==
    \E c \in Threads :
        /\ LockHolder = Some("B")
        /\ ret = [op |-> "navigate", res |-> Ok(<<"navigated", UrlB>>)]
        /\ ReturnedPayload(c)
        /\ cmds[c].kind = "fill"
        /\ Unwrap(cmds[c].took).origin = cmds[c].id

\* sync.json is absent or unreadable, is not JSON, or has no numeric port.
BadSyncJsons == {sync \in AllSyncJsons : sync.kind # "port"}

\* ---- C29: when sync.json is absent, unreadable or malformed, open with no
\* session (or no view) returns read_sync_port's error, creates no view and
\* records no session, whatever else would have succeeded; and a session is
\* only ever recorded with the port that sync.json gives.
C29_NoPortNoSession ==
    /\ [][\A sync \in BadSyncJsons, t \in Transports :
             /\ ret'.op = "open"
             /\ ~SessionOpen
             /\ ret' # ret \/ browser_state' # browser_state \/ webview' # webview
             /\ browser_open(UrlA, sync, 0, t)
             => /\ ~ret'.res.ok
                /\ ret'.res.val \in {<<"Cannot read sync.json">>, <<"Cannot parse sync.json">>,
                                     <<"sync.json missing port">>}
                /\ UNCHANGED <<browser_state, webview, extract_result, posts>>]_vars
    /\ [][\A sync \in AllSyncJsons, t \in Transports :
             /\ ret'.op = "open"
             /\ ret'.res.ok
             /\ ~SessionOpen
             /\ browser_open(UrlA, sync, 0, t)
             => /\ sync.kind = "port"
                /\ IsSome(browser_state')
                /\ Unwrap(browser_state').loopback_port = sync.port]_vars

\* open has failed on the missing port while neither session nor view exists.
C29_Witness ==
    /\ ret = [op |-> "open", res |-> Err(<<"sync.json missing port">>)]
    /\ IsNone(browser_state)
    /\ IsNone(webview)
    /\ ~closing

\* ---- C30: a content command whose script evaluation fails returns the
\* error of the eval at once, with no poll of the slot and nothing taken from
\* it; an open whose view cannot be created returns the error and records
\* neither session nor view.
C30_TransportFailures ==
    /\ [][\A c \in Threads :
             cmds[c].pc = "eval" /\ CmdEval(c, "view")
             => /\ cmds'[c].pc = "done"
                /\ cmds'[c].ret = Err(<<"Eval: ">>)
                /\ cmds'[c].polls = 0
                /\ IsNone(cmds'[c].took)
                /\ UNCHANGED <<extract_result, posts, browser_state>>]_vars
    /\ [](\A c \in Threads :
             cmds[c].pc = "done" /\ cmds[c].ret = Err(<<"Eval: ">>)
             => cmds[c].polls = 0 /\ IsNone(cmds[c].took))
    /\ [][\A sync \in AllSyncJsons, t \in {"window", "parse", "view"} :
             /\ ret'.op = "open"
             /\ ~SessionOpen
             /\ ret' # ret \/ browser_state' # browser_state \/ webview' # webview
             /\ browser_open(UrlA, sync, 0, t)
             => /\ ~ret'.res.ok
                /\ sync.kind = "port"
                   => ret'.res.val \in {<<"Main window not found">>, <<"url parse error">>,
                                        <<"Webview create failed: ">>}
                /\ UNCHANGED <<browser_state, webview, extract_result, posts>>]_vars

\* A click has returned the error of its eval without taking the payload
\* that is in the slot, and the open after the close that followed failed
\* to create the view: there is neither session nor view.
C30_Witness ==
    \E c \in Threads :
        /\ cmds[c].pc = "done"
        /\ cmds[c].ret = Err(<<"Eval: ">>)
        /\ IsSome(extract_result)
        /\ ret = [op |-> "open", res |-> Err(<<"Webview create failed: ">>)]
        /\ IsNone(browser_state)
        /\ IsNone(webview)

\* The port of the session, if there is one.
LoopbackPort == IF IsSome(browser_state) THEN Some(Unwrap(browser_state).loopback_port) ELSE None

\* ---- C31: the loopback_port of a session whose view exists never changes:
\* navigate, open on the open session from whatever project, result
\* delivery, acquire, release and the steps of content commands leave it
\* as it is; it is set only by an open that creates the view, and dropped
\* by close.
C31_PortFixed ==
    /\ [][SessionOpen /\ IsSome(browser_state') => LoopbackPort' = LoopbackPort]_vars
    /\ [][LoopbackPort' # LoopbackPort
          => \/ IsNone(browser_state')
             \/ /\ IsNone(webview) /\ IsSome(webview')
                /\ ret'.op = "open" /\ ret'.res.ok]_vars

\* The session opened from the project with port 4000 was re-opened (open
\* navigated it, leaving an entry) and its port is still 4000.
C31_Witness ==
    /\ SessionOpen
    /\ LoopbackPort = Some(4000)
    /\ Len(History) = 1
    /\ ret = [op |-> "open", res |-> Ok(<<"navigated", UrlA>>)]
    /\ LockHolder = Some("A")

\* ---- C39: the port recorded by an open that creates the session is the
\* number in sync.json reduced modulo 65536: while no view exists an open
\* with a number above 65535 is accepted like any other, and the low 16
\* bits of the number are what the session records.
C39_PortTruncated ==
    [][\A sync \in PortSyncJsons :
          /\ ret'.op = "open"
          /\ ~SessionOpen
          /\ ret' # ret \/ browser_state' # browser_state
          /\ browser_open(UrlA, sync, 0, "ok")
          => /\ IsNone(webview) => ret'.res = Ok(<<"opened", UrlA>>)
             /\ ret'.res.ok
                => /\ IsSome(browser_state')
                   /\ LET recorded == Unwrap(browser_state').loopback_port IN
                      /\ recorded \in 0..65535
                      /\ \E k \in 0..1 : sync.port = k * 65536 + recorded]_vars

\* A session opened from the project whose sync.json says 70000 records 4464.
C39_Witness ==
    /\ SessionOpen
    /\ WidePort = 70000
    /\ LoopbackPort = Some(4464)
    /\ ret = [op |-> "open", res |-> Ok(<<"opened", UrlA>>)]

\* The status of the session; "closed" when there is none.
Status == IF IsSome(browser_state) THEN Unwrap(browser_state).status ELSE "closed"

\* ---- C32: the status of a session is always "loading" or "ready". A
\* session begins loading; every successful open or navigate leaves it
\* loading; it becomes ready only by the receipt of an envelope whose data
\* decodes; browser_get_state reports "idle" exactly when there is no
\* session; so the status moves closed -> loading -> ready -> loading ...
\* and from either to closed.
C32_StatusCycle ==
    /\ [](Status \in {"closed", "loading", "ready"})
    /\ [][Status' # Status
          => <<Status, Status'>> \in {<<"closed", "loading">>, <<"loading", "ready">>,
                                      <<"ready", "loading">>, <<"loading", "closed">>,
                                      <<"ready", "closed">>}]_vars
    /\ [][\A sync \in SyncJsons, now \in EpochMs :
             /\ ret'.op \in {"open", "navigate"}
             /\ ret'.res.ok
             /\ \E url \in SafeUrls :
                   browser_open(url, sync, now, "ok") \/ browser_navigate(url, now, "ok")
             /\ IsSome(browser_state')
             => Status' = "loading"]_vars
    /\ [][Status' = "ready" /\ browser_state' # browser_state
          => \E p \in posts : p.data.kind = "json" /\ store_browser_result(p)]_vars
    /\ [][ret'.op = "getState" /\ browser_get_state
          => /\ ret'.res.val.status = "idle" <=> IsNone(browser_state)
             /\ IsSome(browser_state) => ret'.res.val.status = Status]_vars

\* A session that was ready (it has the title that came with the page's
\* post) was navigated and is loading again.
C32_Witness ==
    /\ Status = "loading"
    /\ Unwrap(browser_state).page_title = PageTitleOf(UrlA)
    /\ Len(History) = 1
    /\ ret.op \in {"open", "navigate"}
    /\ ret.res = Ok(<<"navigated", UrlB>>)

\* ---- C33: whenever no close is half-way, the session record exists
\* exactly when the view exists, whatever open and close calls overlapped
\* before.
C33_RecordIffView ==
    ~closing => (IsSome(browser_state) <=> IsSome(webview))

\* ---- C34: acquire calls of different agents on an unlocked session are
\* serialized by the guard of BROWSER_STATE: either may run first, the one
\* that does succeeds and becomes the holder, the other then fails with
\* "Browser locked by: " and the winner's name and changes nothing; and the
\* holder is only ever set by a successful acquire, to the agent of that call.
C34_AcquireRace ==
    /\ [](IsSome(browser_state) /\ LockHolder = None
             => \A a \in Agents : ENABLED browser_acquire_lock(a))
    /\ [][\A a \in Agents :
             /\ ret'.op = "acquire"
             /\ IsSome(browser_state)
             /\ browser_acquire_lock(a)
             => IF LockHolder = None
                THEN ret'.res.ok /\ LockHolder' = Some(a)
                ELSE IF LockHolder = Some(a)
                THEN ret'.res.ok /\ LockHolder' = LockHolder
                ELSE /\ ret'.res = Err(<<"Browser locked by: ", Unwrap(LockHolder)>>)
                     /\ browser_state' = browser_state]_vars
    /\ [][LockHolder' # LockHolder /\ IsSome(LockHolder')
          => /\ ret'.op = "acquire"
             /\ ret'.res.ok
             /\ LockHolder' = Some(ret'.agent)]_vars

\* B won the race for the unlocked session and A was turned away.
C34_Witness ==
    /\ LockHolder = Some("B")
    /\ ret = [op |-> "acquire", agent |-> "A", res |-> Err(<<"Browser locked by: ", "B">>)]
    /\ IsSome(webview)

\* ---- C35: on an open session navigate, and open, commit the history
\* entry of the page being left, the new current_url and status "loading"
\* before the view is asked to navigate; when that fails, on the URL or in
\* the view, the command returns the error and the committed state stays,
\* while the view and the posts in flight are as they were.
C35_CommitBeforeNavigate ==
    [][\A url \in SafeUrls, sync \in SyncJsons, now \in EpochMs, t \in {"parse", "view"} :
          /\ ret'.op \in {"open", "navigate"}
          /\ ~ret'.res.ok
          /\ SessionOpen
          /\ browser_state' # browser_state \/ ret' # ret
          /\ browser_open(url, sync, now, t) \/ browser_navigate(url, now, t)
          => LET st == Unwrap(browser_state) IN
             /\ ret'.res.val \in {<<"url parse error">>, <<"Navigate: ">>}
             /\ IsSome(browser_state')
             /\ Unwrap(browser_state') =
                   [st EXCEPT
                       !.history = Append(@, [url |-> st.current_url,
                                              title |-> st.page_title,
                                              visited_at |-> now]),
                       !.current_url = url,
                       !.status = "loading"]
             /\ UNCHANGED <<webview, posts, extract_result>>]_vars

\* navigate to UrlB failed in the view, which still shows UrlA; the session
\* that was ready at UrlA says loading at UrlB and has the entry of UrlA.
C35_Witness ==
    /\ ret = [op |-> "navigate", res |-> Err(<<"Navigate: ">>)]
    /\ SessionOpen
    /\ Unwrap(webview).url = UrlA
    /\ Unwrap(browser_state).current_url = UrlB
    /\ Status = "loading"
    /\ Len(History) = 1
    /\ History[1].url = UrlA
    /\ History[1].title = PageTitleOf(UrlA)

\* ------------------------------------------- the bridge's text extraction

\* A page text of n characters.
TextOfLen(n) == [i \in 1..n |-> TextChars[(i % 10) + 1]]

\* The page texts extraction is applied to: short ones, and texts just
\* below, at and above the default limit.
PageTexts ==
    {TextOfLen(n) : n \in 0..MaxPageChars}
    \cup {TextOfLen(n) : n \in {DefaultLimit - 1, DefaultLimit, DefaultLimit + 1}}

\* The max_chars arguments of browser_extract_content: absent, or a u32
\* (small ones, and ones just below, at and above the default limit).
MaxCharsArgs ==
    {None} \cup {Some(n) : n \in 0..(MaxPageChars + 1)}
    \cup {Some(n) : n \in {DefaultLimit - 1, DefaultLimit, DefaultLimit + 1}}

\* let chars = max_chars.unwrap_or(8000): the number written into the script.
extract_chars(max_chars) == IF IsSome(max_chars) THEN Unwrap(max_chars) ELSE DefaultLimit

\* __HW_EXTRACT__.text(selector, maxChars) on a page whose cleaned text is
\* `page` and whose root element exists: `maxChars || 8000` takes 8000 for
\* every falsy maxChars, and 0 is falsy.
extract_text(page, maxChars) ==
    LET limit == IF maxChars = 0 THEN DefaultLimit ELSE maxChars
        limited == take(page, limit) IN
    [text |-> limited, charCount |-> Len(page), truncated |-> Len(limited) < Len(page)]

\* browser_extract_content(selector, max_chars) as far as the text goes: the
\* script it formats, evaluated by the bridge on a page with the text `page`.
ExtractText(page, max_chars) ==
    /\ ret' = [op |-> "text", page |-> page, max_chars |-> max_chars,
               res |-> extract_text(page, extract_chars(max_chars))]
    /\ UNCHANGED <<browser_state, webview, extract_result, posts, cmds, started, closing>>

NextExtract == \E page \in PageTexts, max_chars \in MaxCharsArgs : ExtractText(page, max_chars)

SpecExtract == Init /\ [][NextExtract]_vars

\* ---- C36: for every max_chars that browser_extract_content can pass,
\* 0 included, the extraction returns at most max_chars characters of the
\* text, charCount is the length of the whole text, and truncated is true
\* exactly when the whole text is longer than max_chars; without max_chars
\* the limit is 8000.
C36_TruncatesToMaxChars ==
    ret.op = "text" =>
        LET limit == IF IsSome(ret.max_chars) THEN Unwrap(ret.max_chars) ELSE DefaultLimit IN
        /\ Len(ret.res.text) <= limit
        /\ ret.res.text = take(ret.page, limit)
        /\ ret.res.charCount = Len(ret.page)
        /\ ret.res.truncated <=> (Len(ret.page) > limit)

\* The string member m of decoded data, or the fallback when it is absent.
MemberOr(m, fallback) == IF IsSome(m) THEN Unwrap(m) ELSE fallback

\* ---- C37: on an open session, receiving any envelope whose data decodes
\* as JSON, whatever its action, sets status to "ready", page_title and
\* extracted_text to the decoded title and text or to the empty string when
\* the member is absent, and current_url to the decoded url, kept only when
\* that is absent; a received click, fill or links result has none of the
\* three members, so it blanks the title and the text and keeps the url.
C37_AnyResultFolds ==
    [][\A p \in posts :
          /\ store_browser_result(p)
          /\ IsSome(browser_state)
          /\ p.data.kind = "json"
          => LET st == Unwrap(browser_state) IN
             /\ IsSome(browser_state')
             /\ Unwrap(browser_state') =
                   [st EXCEPT
                       !.status = "ready",
                       !.page_title = MemberOr(p.data.title, EmptyStr),
                       !.current_url = MemberOr(p.data.url, st.current_url),
                       !.extracted_text = MemberOr(p.data.text, EmptyStr)]
             /\ p.action \in {"click", "fill", "links"}
                => /\ Unwrap(browser_state').page_title = EmptyStr
                   /\ Unwrap(browser_state').extracted_text = EmptyStr
                   /\ Unwrap(browser_state').current_url = st.current_url]_vars

\* The page's own post was received and then the result of a click: the
\* session is ready at UrlA with an empty title and an empty text.
C37_Witness ==
    /\ SessionOpen
    /\ AutoPost(UrlA) \notin posts
    /\ IsSome(extract_result)
    /\ Unwrap(extract_result).action = "click"
    /\ Unwrap(extract_result).data = DataPlain
    /\ Status = "ready"
    /\ Unwrap(browser_state).current_url = UrlA
    /\ Unwrap(browser_state).page_title = EmptyStr
    /\ Unwrap(browser_state).extracted_text = EmptyStr

\* ------------------------------------------------ everything beside a lock

HolderSync == [kind |-> "port", port |-> 4000]

\* One session at a time, opened at UrlA, re-opened at and navigated to UrlB
\* (where the view may fail), closed; agent A takes and gives back the lock; page
\* posts are received; and, while the lock is held, the view is moved, shown
\* and read and one click command is started.
NextHolder ==
    \/ IsNone(webview) /\ browser_open(UrlA, HolderSync, 0, "ok")
    \/ SessionOpen /\ NavAllowed /\ browser_open(UrlB, HolderSync, 0, "ok")
    \/ \E t \in {"ok", "view"} : NavAllowed /\ browser_navigate(UrlB, 0, t)
    \/ CloseView
    \/ CloseState
    \/ browser_acquire_lock("A")
    \/ browser_release_lock("A")
    \/ NextDeliver
    \/ IsSome(LockHolder) /\ browser_set_bounds("ok")
    \/ IsSome(LockHolder) /\ browser_set_visible(TRUE, "ok")
    \/ IsSome(LockHolder) /\ browser_get_state
    \/ IsSome(LockHolder) /\ started = 0 /\ posts = {} /\ CmdStart(1, "click")
    \/ NextRun

SpecHolder == Init /\ [][NextHolder]_vars

\* ---- C38: the lock holder is changed only by acquire, release, close and
\* an open that creates a session: navigate, open on an open session, the
\* receipt of a result, the steps of a content command, setBounds,
\* setVisible and getState leave it as it was, so that a held lock survives
\* navigations and delivered results.
C38_HolderFrame ==
    [][LockHolder' # LockHolder
          => /\ \/ \E a \in Agents : browser_acquire_lock(a) \/ browser_release_lock(a)
                \/ CloseState
                \/ /\ ~SessionOpen
                   /\ browser_open(UrlA, HolderSync, 0, "ok")
             /\ \A url \in SafeUrls, t \in {"ok", "view"} :
                   /\ ~browser_navigate(url, 0, t)
                   /\ ~(SessionOpen /\ browser_open(url, HolderSync, 0, t))
             /\ ~NextDeliver
             /\ ~(NextRun \/ \E c \in Threads : CmdStart(c, "click"))
             /\ ~browser_set_bounds("ok")
             /\ ~browser_set_visible(TRUE, "ok")
             /\ ~browser_get_state]_vars

\* A took the lock at UrlA; the session then navigated to UrlB and the post
\* of that page was received: A still holds the lock.
C38_Witness ==
    /\ ret = [op |-> "navigate", res |-> Ok(<<"navigated", UrlB>>)]
    /\ SessionOpen
    /\ LockHolder = Some("A")
    /\ Status = "ready"
    /\ Unwrap(browser_state).current_url = UrlB
    /\ Unwrap(browser_state).page_title = PageTitleOf(UrlB)
    /\ Len(History) = 1
    /\ History[1].url = UrlA

====
